---- MODULE Spec2Model ----
(***************************************************************************)
(* Request handlers of the nexus school-management backend                 *)
(* (backend/api/views.py) over the tables of backend/api/models.py.        *)
(*                                                                         *)
(* One action is one HTTP request handled from its first line to its       *)
(* response.  The tables are sets of rows; a row's surrogate id is not     *)
(* kept, a row is addressed by choosing it.  Audit-log rows and the        *)
(* last_used_at / created_at timestamps are not represented.               *)
(***************************************************************************)
EXTENDS Integers, FiniteSets, Sequences, TLC

\* Python None, SQL NULL, a JSON key that is absent or null (ids start at 1,
\* days at 0).
None == -1
\* A key that the JSON payload of a PATCH does not hold ("x" in payload is false).
Absent == -2

(***************************************************************************)
(* Bounds of the model.                                                    *)
(***************************************************************************)
\* Rows the ClassScheduleEntry table may hold.
MaxEntries == 2
\* Rows the TeacherAvailability table may hold.
MaxAvail == 1

(***************************************************************************)
(* Program constants.                                                      *)
(***************************************************************************)
\* _validate_day_of_week accepts 0..6.
LastDay == 6

ROLE_ADMIN == "admin"
ROLE_DIRECTOR == "director"
ROLE_COORDINATOR == "coordinator"
ROLE_TEACHER == "teacher"
ROLE_STAFF == "staff"
ROLE_FINANCE == "finance"
ROLE_SUPPORT == "support"

(***************************************************************************)
(* Rows the requests meet: two schools; school 1 with an admin, a teacher,  *)
(* a support user and a finance user, a second tenant with its own admin   *)
(* (register_user with a school_name, then the users endpoint), and a user *)
(* registered without a school (register_user gives it role staff and no   *)
(* school).                                                                *)
(***************************************************************************)
Schools == {1, 2}

\* auth user id -> its UserProfile row (pid is the profile's primary key).
SeedProfiles ==
    (1 :> [pid |-> 11, school |-> 1, role |-> ROLE_ADMIN]) @@
    (2 :> [pid |-> 12, school |-> 1, role |-> ROLE_TEACHER]) @@
    (3 :> [pid |-> 13, school |-> 1, role |-> ROLE_SUPPORT]) @@
    (4 :> [pid |-> 14, school |-> 1, role |-> ROLE_FINANCE]) @@
    (5 :> [pid |-> 15, school |-> 2, role |-> ROLE_ADMIN]) @@
    (6 :> [pid |-> 16, school |-> None, role |-> ROLE_STAFF])

\* One issued ApiToken per seeded user: key -> user.
SeedTokens == [k \in DOMAIN SeedProfiles |-> k]

\* Classroom id -> school.
ClassroomSchool == (1 :> 1) @@ (2 :> 1) @@ (3 :> 2)

\* TimeSlot id -> school.
SlotSchool == (1 :> 1) @@ (2 :> 1) @@ (3 :> 2)

\* Student id -> school.
StudentSchool == (1 :> 1) @@ (2 :> 2)

\* GradingConfig choices and the defaults _calculate_final_grade falls back on.
SYSTEM_BIMESTRAL == "bimestral"
SYSTEM_TRIMESTRAL == "trimestral"
METHOD_ARITHMETIC == "arithmetic"
METHOD_WEIGHTED == "weighted"
DefaultWeight == 50
FallbackTotal == 100
MaxGrade == 10

\* A GradingConfig row; a weight of None is a key missing from the weights dict.
Config(system, method, exam, activities, rule) ==
    [present |-> TRUE, system |-> system, calculation_method |-> method,
     weights |-> [exam |-> exam, activities |-> activities],
     recovery_rule |-> rule]

\* A school without a GradingConfig row.
NoConfig ==
    [present |-> FALSE, system |-> "", calculation_method |-> "",
     weights |-> [exam |-> None, activities |-> None], recovery_rule |-> ""]

\* The row grading_config creates with get_or_create on a school's first request.
DefaultConfig ==
    Config(SYSTEM_BIMESTRAL, METHOD_ARITHMETIC, DefaultWeight, DefaultWeight, "replace")

\* Rounding of a DecimalField(max_digits=5, decimal_places=2) on save: the
\* PostgreSQL backend hands the value to a numeric(5,2) column, which rounds
\* half away from zero; the SQLite backend quantizes in Python, half to even.
ROUND_HALF_EVEN == "ROUND_HALF_EVEN"
ROUND_HALF_UP == "ROUND_HALF_UP"
Roundings == {ROUND_HALF_EVEN, ROUND_HALF_UP}

Months == 1..12

VARIABLES
    profiles,      \* UserProfile: user id -> [pid, school, role]
    tokens,        \* ApiToken: key -> user id
    nextKey,       \* the key the next ApiToken.issue_for_user call draws
    schedule,      \* ClassScheduleEntry rows [classroom, slot, day, teacher, subject]
    avail,         \* TeacherAvailability rows [teacher, slot, day]
    grades,        \* GradeRecord rows, decimals held in hundredths
    gradingConfig, \* GradingConfig: school -> config record
    rounding,      \* how the database rounds a decimal to two places
    invoices,      \* Invoice rows in creation order
    prompts,       \* number of prompts forwarded to the text-generation service
    enrollments,   \* Enrollment rows [student, classroom, start_date, end_date, status]
    transactions,  \* FinancialTransaction rows in creation order
    attendance,    \* AttendanceRecord: id -> status
    justifications, \* AbsenceJustification rows [attendance, reason, status, ...]
    inflight,      \* schedule POSTs past the conflict check, not yet stored
    last           \* the last exchange: [op, key, args, status, error, data]

tokenVars == <<tokens, nextKey>>
schedVars == <<schedule, avail>>
gradeVars == <<grades, gradingConfig, rounding>>
financeVars == <<invoices, prompts>>
attendVars == <<attendance, justifications>>
recordVars == <<enrollments, transactions, attendVars, inflight>>
vars == <<profiles, tokenVars, schedVars, gradeVars, financeVars, recordVars, last>>

\* The request handled last (endpoint, presented token key, arguments) and its
\* response: status code and data of a success, status code and error message
\* of a refusal.
Reply(op, key, args, status, data) ==
    [op |-> op, key |-> key, args |-> args, status |-> status, error |-> "",
     data |-> data]

Exchange(op, key, args, status, error) ==
    [op |-> op, key |-> key, args |-> args, status |-> status, error |-> error,
     data |-> <<>>]

(***************************************************************************)
(* Authentication and authorisation helpers.                               *)
(***************************************************************************)
\* _get_user_from_request: the user of the presented token, or None.
GetUserFromRequest(key) == IF key \in DOMAIN tokens THEN tokens[key] ELSE None

\* _require_profile_school: the caller's school, or None (answered 400).
RequireProfileSchool(user) ==
    IF user \in DOMAIN profiles THEN profiles[user].school ELSE None

\* As _require_roles, but any role passes.
RequireRolesAnyRole(user, allowed_roles) == user \in DOMAIN profiles

\* _require_roles: TRUE when the caller passes, FALSE when answered 403.
RequireRoles(user, allowed_roles) ==
    user \in DOMAIN profiles /\ profiles[user].role \in allowed_roles

\* _validate_day_of_week.
ValidDay(day) == day >= 0 /\ day <= LastDay

\* UserProfile.objects.filter(Q(user_id=t) | Q(id=t), school=school,
\* role=teacher).first(): the match with the least primary key, or None.
ResolveTeacher(teacher_id, school) ==
    LET found == {u \in DOMAIN profiles :
                    /\ (u = teacher_id \/ profiles[u].pid = teacher_id)
                    /\ profiles[u].school = school
                    /\ profiles[u].role = ROLE_TEACHER}
    IN IF found = {} THEN None
       ELSE CHOOSE u \in found : \A v \in found : profiles[u].pid <= profiles[v].pid

(***************************************************************************)
(* _check_schedule_conflicts: "" when there is no conflict, otherwise the  *)
(* error message of the 400 response.                                      *)
(***************************************************************************)
\* Variants of _check_schedule_conflicts with a plausible slip each.
\* The classroom query is forgotten.
CheckConflictsTeacherOnly(school, classroom, teacher, day_of_week, time_slot) ==
    LET teacher_conflict == {e \in schedule :
                        /\ ClassroomSchool[e.classroom] = school
                        /\ e.teacher = teacher
                        /\ e.day = day_of_week
                        /\ e.slot = time_slot
                        /\ e.classroom # classroom}
        unavailable == {a \in avail :
                        /\ a.teacher = teacher
                        /\ a.day = day_of_week
                        /\ a.slot = time_slot}
    IN IF teacher # None /\ teacher_conflict # {}
       THEN "Teacher slot already occupied"
       ELSE IF teacher # None /\ unavailable # {}
            THEN "Teacher unavailable in this slot"
       ELSE ""

\* Both queries filter on the classroom where the code excludes it.
CheckConflictsOwnClassroom(school, classroom, teacher, day_of_week, time_slot) ==
    LET conflict == {e \in schedule :
                        /\ ClassroomSchool[e.classroom] = school
                        /\ e.day = day_of_week
                        /\ e.slot = time_slot
                        /\ e.classroom = classroom}
        teacher_conflict == {e \in schedule :
                        /\ ClassroomSchool[e.classroom] = school
                        /\ e.teacher = teacher
                        /\ e.day = day_of_week
                        /\ e.slot = time_slot
                        /\ e.classroom = classroom}
        unavailable == {a \in avail :
                        /\ a.teacher = teacher
                        /\ a.day = day_of_week
                        /\ a.slot = time_slot}
    IN IF conflict # {} THEN "Classroom slot already occupied"
       ELSE IF teacher # None /\ teacher_conflict # {}
            THEN "Teacher slot already occupied"
       ELSE IF teacher # None /\ unavailable # {}
            THEN "Teacher unavailable in this slot"
       ELSE ""

\* The TeacherAvailability query is forgotten.
CheckConflictsIgnoringAvailability(school, classroom, teacher, day_of_week, time_slot) ==
    LET conflict == {e \in schedule :
                        /\ ClassroomSchool[e.classroom] = school
                        /\ e.day = day_of_week
                        /\ e.slot = time_slot
                        /\ e.classroom # classroom}
        teacher_conflict == {e \in schedule :
                        /\ ClassroomSchool[e.classroom] = school
                        /\ e.teacher = teacher
                        /\ e.day = day_of_week
                        /\ e.slot = time_slot
                        /\ e.classroom # classroom}
    IN IF conflict # {} THEN "Classroom slot already occupied"
       ELSE IF teacher # None /\ teacher_conflict # {}
            THEN "Teacher slot already occupied"
       ELSE ""


CheckScheduleConflicts(school, classroom, teacher, day_of_week, time_slot) ==
    LET conflict == {e \in schedule :
                        /\ ClassroomSchool[e.classroom] = school
                        /\ e.day = day_of_week
                        /\ e.slot = time_slot
                        /\ e.classroom # classroom}
        teacher_conflict == {e \in schedule :
                        /\ ClassroomSchool[e.classroom] = school
                        /\ e.teacher = teacher
                        /\ e.day = day_of_week
                        /\ e.slot = time_slot
                        /\ e.classroom # classroom}
        unavailable == {a \in avail :
                        /\ a.teacher = teacher
                        /\ a.day = day_of_week
                        /\ a.slot = time_slot}
    IN IF conflict # {} THEN "Classroom slot already occupied"
       ELSE IF teacher # None /\ teacher_conflict # {}
            THEN "Teacher slot already occupied"
       ELSE IF teacher # None /\ unavailable # {}
            THEN "Teacher unavailable in this slot"
       ELSE ""

(***************************************************************************)
(* Requests of the scheduling endpoints.                                   *)
(***************************************************************************)
\* Callers: the admin and the teacher of school 1, a support user of school 1
\* (no scheduling role), the admin of school 2, and no token at all.
SchedCallers == {1, 2, 3, 5, None}
\* A teacher is named by user id (2) or by profile id (12); 3 names a user who
\* is no teacher.

\* POST requests <<token key, payload>>: the admin of school 1 sends every
\* well-formed payload and one malformed in each field, the other callers a
\* few payloads each.
PostPayload(c, s, d, subject, t) ==
    [classroom_id |-> c, time_slot_id |-> s, day_of_week |-> d,
     subject |-> subject, teacher_id |-> t]

SchedulePostRequests ==
    {<<1, PostPayload(c, s, d, "Matematica", t)>> :
        c \in {1, 2}, s \in {1, 2}, d \in {0, 1}, t \in {None, 2}}
    \cup {<<1, PostPayload(1, 1, 0, "Matematica", 12)>>,
          <<1, PostPayload(1, 1, 0, "Matematica", 3)>>,
          <<1, PostPayload(1, 1, 0, "", None)>>,
          <<1, PostPayload(None, 1, 0, "Matematica", None)>>,
          <<1, PostPayload(1, None, 0, "Matematica", None)>>,
          <<1, PostPayload(1, 1, None, "Matematica", None)>>,
          <<1, PostPayload(1, 1, LastDay + 1, "Matematica", None)>>,
          <<1, PostPayload(3, 1, 0, "Matematica", None)>>,
          <<1, PostPayload(1, 3, 0, "Matematica", None)>>}
    \cup {<<2, PostPayload(2, 2, d, "Matematica", 2)>> : d \in {0, 1}}
    \cup {<<k, PostPayload(1, 1, 0, "Matematica", None)>> : k \in {3, 5, None}}

\* PATCH payloads: every key may be absent.
PatchPayload(d, s, t) == [day_of_week |-> d, time_slot_id |-> s, teacher_id |-> t]

SchedulePatchRequests ==
    {<<1, PatchPayload(d, Absent, Absent)>> : d \in {0, 1}}
    \cup {<<1, PatchPayload(Absent, s, Absent)>> : s \in {Absent, 1, 2}}
    \cup {<<1, PatchPayload(Absent, Absent, t)>> : t \in {None, 2}}
    \cup {<<1, PatchPayload(1, 2, 2)>>,
          <<1, PatchPayload(LastDay + 1, Absent, Absent)>>,
          <<1, PatchPayload(Absent, 3, Absent)>>,
          <<1, PatchPayload(Absent, None, Absent)>>,
          <<1, PatchPayload(Absent, Absent, 3)>>}
    \cup {<<k, PatchPayload(1, Absent, Absent)>> : k \in {2, 3, 5, None}}

\* POST /api/availability/ requests <<token key, teacher_id, time_slot_id, day>>.
AvailabilityRequests ==
    {<<1, 2, 1, 0>>, <<1, 2, 2, 1>>}
    \cup {<<1, 3, 1, 0>>, <<1, None, 1, 0>>, <<1, 2, 3, 0>>, <<1, 2, 1, LastDay + 1>>,
          <<2, 3, 1, 1>>, <<3, 2, 1, 0>>, <<5, 2, 1, 0>>, <<None, 2, 1, 0>>}

SCHEDULE_POST_ROLES ==
    {ROLE_ADMIN, ROLE_DIRECTOR, ROLE_COORDINATOR, ROLE_STAFF, ROLE_TEACHER}
SCHEDULE_DETAIL_ROLES ==
    {ROLE_ADMIN, ROLE_DIRECTOR, ROLE_COORDINATOR, ROLE_STAFF}
AVAILABILITY_ROLES ==
    {ROLE_ADMIN, ROLE_DIRECTOR, ROLE_COORDINATOR, ROLE_TEACHER}

\* The row a detail URL addresses when its id matches no row.
MissingRow ==
    [classroom |-> None, slot |-> None, day |-> None, teacher |-> None,
     subject |-> ""]

MissingAvailability == [teacher |-> 2, slot |-> None, day |-> None]

\* unique_together (classroom, time_slot, day_of_week) of ClassScheduleEntry.
SameCell(e, f) == e.classroom = f.classroom /\ e.slot = f.slot /\ e.day = f.day

\* ClassScheduleEntry.objects.update_or_create(classroom, time_slot,
\* day_of_week, defaults={subject, teacher}).
UpsertEntry(rows, classroom, slot, day, subject, teacher) ==
    LET row == [classroom |-> classroom, slot |-> slot, day |-> day,
                teacher |-> teacher, subject |-> subject]
    IN {e \in rows : ~SameCell(e, row)} \cup {row}

\* The answer of POST /api/schedules/ up to the conflict check: the status and
\* error of the refusal, or <<201, "">> when the handler goes on to store the
\* entry.
SchedulesPostAnswer(key, p) ==
    LET user == GetUserFromRequest(key)
        school == RequireProfileSchool(user)
        teacher == ResolveTeacher(p.teacher_id, school)
        conflict_error ==
            CheckScheduleConflicts(school, p.classroom_id, teacher,
                                   p.day_of_week, p.time_slot_id)
    IN IF user = None THEN <<401, "Unauthorized">>
       ELSE IF school = None THEN <<400, "School not configured for user">>
       ELSE IF ~RequireRoles(user, SCHEDULE_POST_ROLES) THEN <<403, "Forbidden">>
       ELSE IF None \in {p.classroom_id, p.time_slot_id, p.day_of_week}
               \/ p.subject = ""
            THEN <<400, "Missing required fields">>
       ELSE IF ~ValidDay(p.day_of_week) THEN <<400, "Invalid day_of_week">>
       ELSE IF ClassroomSchool[p.classroom_id] # school
            THEN <<400, "Invalid classroom">>
       ELSE IF SlotSchool[p.time_slot_id] # school
            THEN <<400, "Invalid time slot">>
       ELSE IF p.teacher_id # None /\ teacher = None
            THEN <<400, "Invalid teacher">>
       ELSE IF conflict_error # "" THEN <<400, conflict_error>>
       ELSE <<201, "">>

\* POST /api/schedules/ processed with no other request in between.
SchedulesPost(key, p) ==
    LET answer == SchedulesPostAnswer(key, p)
        teacher == ResolveTeacher(p.teacher_id, RequireProfileSchool(GetUserFromRequest(key)))
        rows == UpsertEntry(schedule, p.classroom_id, p.time_slot_id,
                            p.day_of_week, p.subject, teacher)
    IN /\ UNCHANGED <<profiles, recordVars, tokenVars, avail, gradeVars, financeVars>>
       /\ IF answer[1] # 201
          THEN /\ last' = Exchange("schedules_post", key, p, answer[1], answer[2])
               /\ UNCHANGED schedule
          ELSE /\ Cardinality(rows) <= MaxEntries
               /\ schedule' = rows
               /\ last' = Exchange("schedules_post", key, p, 201, "")

\* PATCH /api/schedules/<id>/ on the row `entry`.
ScheduleDetailPatch(key, entry, p) ==
    LET user == GetUserFromRequest(key)
        school == RequireProfileSchool(user)
        found == entry \in schedule /\ ClassroomSchool[entry.classroom] = school
        day == IF p.day_of_week = Absent THEN entry.day ELSE p.day_of_week
        slot == IF p.time_slot_id = Absent THEN entry.slot ELSE p.time_slot_id
        named == ResolveTeacher(p.teacher_id, school)
        teacher == IF p.teacher_id = Absent THEN entry.teacher ELSE named
        conflict_error ==
            CheckScheduleConflicts(school, entry.classroom, teacher, day, slot)
        row == [entry EXCEPT !.day = day, !.slot = slot, !.teacher = teacher]
        fail(status, error) ==
            /\ last' = Exchange("schedule_patch", key, <<entry, p>>, status, error)
            /\ UNCHANGED schedule
    IN /\ UNCHANGED <<profiles, recordVars, tokenVars, avail, gradeVars, financeVars>>
       /\ IF user = None THEN fail(401, "Unauthorized")
          ELSE IF school = None THEN fail(400, "School not configured for user")
          ELSE IF ~found THEN fail(404, "Not found")
          ELSE IF ~RequireRoles(user, SCHEDULE_DETAIL_ROLES) THEN fail(403, "Forbidden")
          ELSE IF p.day_of_week # Absent /\ ~ValidDay(p.day_of_week)
               THEN fail(400, "Invalid day_of_week")
          ELSE IF p.time_slot_id # Absent
                  /\ (p.time_slot_id = None \/ SlotSchool[p.time_slot_id] # school)
               THEN fail(400, "Invalid time slot")
          ELSE IF p.teacher_id \notin {Absent, None} /\ named = None
               THEN fail(400, "Invalid teacher")
          ELSE IF conflict_error # "" THEN fail(400, conflict_error)
          \* entry.save(): the unique constraint rejects a second row of the
          \* classroom in the cell, and the uncaught IntegrityError is a 500.
          ELSE IF \E e \in schedule \ {entry} : SameCell(e, row)
               THEN fail(500, "IntegrityError")
          ELSE /\ schedule' = (schedule \ {entry}) \cup {row}
               /\ last' = Exchange("schedule_patch", key, <<entry, p>>, 200, "")

\* DELETE /api/schedules/<id>/ on the row `entry`.
ScheduleDetailDelete(key, entry) ==
    LET user == GetUserFromRequest(key)
        school == RequireProfileSchool(user)
        found == entry \in schedule /\ ClassroomSchool[entry.classroom] = school
        fail(status, error) ==
            /\ last' = Exchange("schedule_delete", key, entry, status, error)
            /\ UNCHANGED schedule
    IN /\ UNCHANGED <<profiles, recordVars, tokenVars, avail, gradeVars, financeVars>>
       /\ IF user = None THEN fail(401, "Unauthorized")
          ELSE IF school = None THEN fail(400, "School not configured for user")
          ELSE IF ~found THEN fail(404, "Not found")
          ELSE IF ~RequireRoles(user, SCHEDULE_DETAIL_ROLES) THEN fail(403, "Forbidden")
          ELSE /\ schedule' = schedule \ {entry}
               /\ last' = Exchange("schedule_delete", key, entry, 200, "")

\* POST /api/availability/
AvailabilityPost(key, teacher_id, time_slot_id, day_of_week) ==
    LET user == GetUserFromRequest(key)
        school == RequireProfileSchool(user)
        teacher == IF profiles[user].role = ROLE_TEACHER THEN user
                   ELSE ResolveTeacher(teacher_id, school)
        row == [teacher |-> teacher, slot |-> time_slot_id, day |-> day_of_week]
        fail(status, error) ==
            /\ last' = Exchange("availability_post", key,
                                <<teacher_id, time_slot_id, day_of_week>>, status, error)
            /\ UNCHANGED avail
    IN /\ UNCHANGED <<profiles, recordVars, tokenVars, schedule, gradeVars, financeVars>>
       /\ IF user = None THEN fail(401, "Unauthorized")
          ELSE IF school = None THEN fail(400, "School not configured for user")
          ELSE IF ~RequireRoles(user, AVAILABILITY_ROLES) THEN fail(403, "Forbidden")
          ELSE IF None \in {teacher_id, time_slot_id, day_of_week}
               THEN fail(400, "Missing required fields")
          ELSE IF ~ValidDay(day_of_week) THEN fail(400, "Invalid day_of_week")
          ELSE IF teacher = None THEN fail(400, "Invalid teacher")
          ELSE IF SlotSchool[time_slot_id] # school THEN fail(400, "Invalid time slot")
          \* get_or_create
          ELSE /\ Cardinality(avail \cup {row}) <= MaxAvail
               /\ avail' = avail \cup {row}
               /\ last' = Exchange("availability_post", key,
                                <<teacher_id, time_slot_id, day_of_week>>, 201, "")

\* DELETE /api/availability/<id>/ on the row `record`.
AvailabilityDetailDelete(key, record) ==
    LET user == GetUserFromRequest(key)
        school == RequireProfileSchool(user)
        found == record \in avail /\ profiles[record.teacher].school = school
        fail(status, error) ==
            /\ last' = Exchange("availability_delete", key, record, status, error)
            /\ UNCHANGED avail
    IN /\ UNCHANGED <<profiles, recordVars, tokenVars, schedule, gradeVars, financeVars>>
       /\ IF user = None THEN fail(401, "Unauthorized")
          ELSE IF school = None THEN fail(400, "School not configured for user")
          ELSE IF ~found THEN fail(404, "Not found")
          ELSE IF ~RequireRoles(user, AVAILABILITY_ROLES) THEN fail(403, "Forbidden")
          \* a teacher may delete only the teacher's own rows
          ELSE IF record.teacher # user /\ profiles[user].role = ROLE_TEACHER
               THEN fail(403, "Forbidden")
          ELSE /\ avail' = avail \ {record}
               /\ last' = Exchange("availability_delete", key, record, 200, "")

\* The tables after the users are registered and nothing else is stored.
InitRows ==
    /\ profiles = SeedProfiles
    /\ tokens = SeedTokens
    /\ nextKey = Cardinality(DOMAIN SeedTokens) + 1
    /\ schedule = {}
    /\ avail = {}
    /\ grades = {}
    /\ invoices = <<>>
    /\ prompts = 0
    /\ enrollments = {}
    /\ transactions = <<>>
    /\ attendance = <<>>
    /\ justifications = {}
    /\ inflight = {}
    /\ last = Exchange("none", None, <<>>, 0, "")

\* No school has a GradingConfig row.  Where this is the initial state no
\* decimal with more than two places is stored, so the rounding is never used.
Init ==
    /\ InitRows
    /\ gradingConfig = [s \in Schools |-> NoConfig]
    /\ rounding = ROUND_HALF_EVEN

NextSched ==
    \/ \E r \in SchedulePostRequests : SchedulesPost(r[1], r[2])
    \/ \E r \in SchedulePatchRequests, entry \in schedule \cup {MissingRow} :
          ScheduleDetailPatch(r[1], entry, r[2])
    \/ \E key \in SchedCallers, entry \in schedule \cup {MissingRow} :
          ScheduleDetailDelete(key, entry)
    \/ \E r \in AvailabilityRequests : AvailabilityPost(r[1], r[2], r[3], r[4])
    \/ \E key \in SchedCallers, record \in avail \cup {MissingAvailability} :
          AvailabilityDetailDelete(key, record)

SpecSched == Init /\ [][NextSched]_vars

(***************************************************************************)
(* Scheduling claims.                                                      *)
(***************************************************************************)
\* The caller presents a stored token, has a school and a role of `roles`.
Permitted(key, roles) ==
    /\ key \in DOMAIN tokens
    /\ tokens[key] \in DOMAIN profiles
    /\ profiles[tokens[key]].school # None
    /\ profiles[tokens[key]].role \in roles

\* Another classroom of the school of `classroom` holds (day, slot).
OccupiedByOther(classroom, day, slot) ==
    \E e \in schedule :
        /\ e.classroom # classroom
        /\ ClassroomSchool[e.classroom] = ClassroomSchool[classroom]
        /\ e.day = day
        /\ e.slot = slot

NoSharedCell ==
    \A e \in schedule : \A f \in schedule :
        (/\ e # f
         /\ ClassroomSchool[e.classroom] = ClassroomSchool[f.classroom]
         /\ e.day = f.day)
        => e.slot # f.slot

\* The (day, slot) a PATCH of `entry` with payload p asks for.
PatchDay(entry, p) == IF p.day_of_week = Absent THEN entry.day ELSE p.day_of_week
PatchSlot(entry, p) == IF p.time_slot_id = Absent THEN entry.slot ELSE p.time_slot_id

\* The step handled a POST (PATCH) whose cell another classroom of the school
\* held before the step.
OccupiedPostRefused ==
    (/\ last'.op = "schedules_post"
     /\ last'.args.classroom_id # None
     /\ OccupiedByOther(last'.args.classroom_id, last'.args.day_of_week,
                        last'.args.time_slot_id))
    => /\ schedule' = schedule
       /\ Permitted(last'.key, SCHEDULE_POST_ROLES) => last'.status = 400

OccupiedPatchRefused ==
    (/\ last'.op = "schedule_patch"
     /\ last'.args[1] \in schedule
     /\ OccupiedByOther(last'.args[1].classroom,
                        PatchDay(last'.args[1], last'.args[2]),
                        PatchSlot(last'.args[1], last'.args[2])))
    => /\ schedule' = schedule
       /\ (/\ Permitted(last'.key, SCHEDULE_DETAIL_ROLES)
           /\ profiles[tokens[last'.key]].school
                = ClassroomSchool[last'.args[1].classroom])
          => last'.status = 400

\* C1: within a school no two schedule rows share a (day_of_week, time_slot),
\* whatever POST, PATCH and DELETE requests were handled; a POST or PATCH that
\* targets a cell held by another classroom of the school stores nothing, and
\* is answered 400 when the caller passes the authentication, school and role
\* gates that precede the conflict check (for a PATCH, the row is of the
\* caller's school).
C1_OneRowPerCell ==
    /\ []NoSharedCell
    /\ [][OccupiedPostRefused /\ OccupiedPatchRefused]_vars

\* C1 witness: a POST for a cell that another classroom holds was answered
\* 400 "Classroom slot already occupied".
C1_Witness ==
    /\ last.op = "schedules_post"
    /\ last.status = 400
    /\ last.error = "Classroom slot already occupied"
    /\ schedule # {}

\* C2: no teacher is assigned to two rows of different classrooms with the
\* same day_of_week and time_slot.
C2_TeacherOncePerCell ==
    \A e \in schedule : \A f \in schedule :
        (/\ e.teacher # None
         /\ e.teacher = f.teacher
         /\ e.classroom # f.classroom
         /\ e.day = f.day)
        => e.slot # f.slot

\* C2 witness: one teacher holds rows of two different classrooms.
C2_Witness ==
    \E e \in schedule : \E f \in schedule :
        e.teacher # None /\ e.teacher = f.teacher /\ e.classroom # f.classroom

\* The teacher has a TeacherAvailability row for (day, slot).
HasAvailabilityRow(teacher, day, slot) ==
    \E a \in avail : a.teacher = teacher /\ a.day = day /\ a.slot = slot

UnavailablePostRefused ==
    (/\ last'.op = "schedules_post"
     /\ Permitted(last'.key, SCHEDULE_POST_ROLES)
     /\ \E t \in DOMAIN profiles :
           /\ t = ResolveTeacher(last'.args.teacher_id, profiles[tokens[last'.key]].school)
           /\ HasAvailabilityRow(t, last'.args.day_of_week, last'.args.time_slot_id))
    => schedule' = schedule /\ last'.status = 400

UnavailablePatchRefused ==
    (/\ last'.op = "schedule_patch"
     /\ last'.args[1] \in schedule
     /\ Permitted(last'.key, SCHEDULE_DETAIL_ROLES)
     /\ profiles[tokens[last'.key]].school = ClassroomSchool[last'.args[1].classroom]
     /\ \E t \in DOMAIN profiles :
           /\ t = ResolveTeacher(last'.args[2].teacher_id,
                                 profiles[tokens[last'.key]].school)
           /\ HasAvailabilityRow(t, PatchDay(last'.args[1], last'.args[2]),
                                 PatchSlot(last'.args[1], last'.args[2])))
    => schedule' = schedule /\ last'.status = 400

\* C3: a schedule POST or PATCH by a permitted caller that names a teacher who
\* has a TeacherAvailability row for the requested (day_of_week, time_slot) is
\* answered 400 and leaves the schedule rows unchanged.
C3_UnavailableTeacherRefused ==
    [][UnavailablePostRefused /\ UnavailablePatchRefused]_vars

\* C3 witness: a POST was answered 400 "Teacher unavailable in this slot".
C3_Witness ==
    /\ last.op = "schedules_post"
    /\ last.status = 400
    /\ last.error = "Teacher unavailable in this slot"
    /\ avail # {}

(***************************************************************************)
(* Grades.  A grade is a Decimal: the model holds the values of a request  *)
(* in thousandths, a computed value as an exact fraction <<numerator,      *)
(* denominator>> of thousandths, and a stored value in hundredths.  The    *)
(* 28 significant digits of a Python Decimal quotient are taken as exact.  *)
(***************************************************************************)
\* No computed value (Python None).
NullQ == <<0, 0>>

\* A key missing from a PATCH payload whose values are strings.
Unset == "unset"

\* A weights dict left alone by a grading-config PATCH.
KeepWeights == [exam |-> Absent, activities |-> Absent]

\* Bound: GradeRecord rows.
MaxGrades == 2

\* Rounds the fraction q of thousandths to hundredths, as the database does
\* when the row is saved.
Quantize(q, mode) ==
    IF q = NullQ THEN None
    ELSE LET unit == 10 * q[2]
             floor == q[1] \div unit
             rest == q[1] % unit
         IN IF 2 * rest < unit THEN floor
            ELSE IF 2 * rest > unit THEN floor + 1
            ELSE IF mode = ROUND_HALF_UP \/ floor % 2 = 1 THEN floor + 1
            ELSE floor

\* A request's grade value as the row stores it.
StoreDecimal(value, mode) ==
    IF value = None THEN None ELSE Quantize(<<value, 1>>, mode)

\* A stored grade value as the handler reads it back.
FromStored(value) == IF value = None THEN None ELSE 10 * value

\* _parse_grade_field: TRUE unless the value is answered "Grade out of range".
GradeInRange(value) == value = None \/ (value >= 0 /\ value <= MaxGrade * 1000)

\* _parse_date_field on the month of the date: TRUE unless answered "Invalid date".
ValidMonth(month) == month = None \/ month \in Months

\* As _calculate_term, but the trimestral branch is missing.
CalculateTermBimestralOnly(config, month) ==
    IF month = None THEN ""
    ELSE IF month <= 2 THEN "1"
    ELSE IF month <= 4 THEN "2"
    ELSE IF month <= 6 THEN "3"
    ELSE "4"

\* _calculate_term on the month of date_value.
CalculateTerm(config, month) ==
    IF month = None THEN ""
    ELSE IF config.present /\ config.system = SYSTEM_TRIMESTRAL
         THEN IF month <= 3 THEN "1"
              ELSE IF month <= 6 THEN "2"
              ELSE "3"
    ELSE IF month <= 2 THEN "1"
    ELSE IF month <= 4 THEN "2"
    ELSE IF month <= 6 THEN "3"
    ELSE "4"

\* weights.get(name, 50)
WeightOr(weight) == IF weight = None THEN DefaultWeight ELSE weight

\* As the average of _calculate_final_grade, but the weights are ignored.
CalculateAverageUnweighted(config, grade1, grade2) ==
    IF grade1 # None /\ grade2 # None THEN <<grade1 + grade2, 2>> ELSE NullQ

\* _calculate_final_grade, first half: the average.
CalculateAverage(config, grade1, grade2) ==
    IF grade1 # None /\ grade2 # None
    THEN IF config.present /\ config.calculation_method = METHOD_WEIGHTED
         THEN LET exam_weight == WeightOr(config.weights.exam)
                  activities_weight == WeightOr(config.weights.activities)
                  total == IF exam_weight + activities_weight # 0
                           THEN exam_weight + activities_weight
                           ELSE FallbackTotal
              IN <<grade1 * exam_weight + grade2 * activities_weight, total>>
         ELSE <<grade1 + grade2, 2>>
    ELSE NullQ

\* As the final grade of _calculate_final_grade, but every rule replaces.
ApplyRecoveryAlwaysReplace(config, average, recovery_grade) ==
    IF recovery_grade # None /\ average # NullQ
    THEN <<recovery_grade, 1>>
    ELSE average

\* _calculate_final_grade, second half: the final grade.
ApplyRecovery(config, average, recovery_grade) ==
    IF recovery_grade # None /\ average # NullQ
    THEN LET rule == IF config.present /\ config.recovery_rule # ""
                     THEN config.recovery_rule ELSE "replace"
         IN IF rule = "average"
            THEN <<average[1] + recovery_grade * average[2], 2 * average[2]>>
            ELSE IF rule = "max"
            THEN IF average[1] >= recovery_grade * average[2]
                 THEN average ELSE <<recovery_grade, 1>>
            ELSE <<recovery_grade, 1>>
    ELSE average

\* _calculate_final_grade
CalculateFinalGrade(config, grade1, grade2, recovery_grade) ==
    LET average == CalculateAverage(config, grade1, grade2)
    IN [average |-> average,
        final_grade |-> ApplyRecovery(config, average, recovery_grade)]

GRADE_ROLES == {ROLE_ADMIN, ROLE_DIRECTOR, ROLE_COORDINATOR, ROLE_TEACHER}
GRADING_CONFIG_ROLES == {ROLE_ADMIN, ROLE_DIRECTOR, ROLE_COORDINATOR}

\* unique_together (student, classroom, subject, term)
SameGradeKey(r, q) ==
    /\ r.student = q.student /\ r.classroom = q.classroom
    /\ r.subject = q.subject /\ r.term = q.term

\* The id of no GradeRecord row.
MissingGrade ==
    [student |-> None, classroom |-> None, subject |-> "", term |-> "",
     month |-> None, grade1 |-> None, grade2 |-> None, recovery_grade |-> None,
     average |-> None, final_grade |-> None]

\* POST /api/grades/ on a day of the month `today`.
GradesPost(key, p, today) ==
    LET user == GetUserFromRequest(key)
        school == RequireProfileSchool(user)
        config == gradingConfig[school]
        month == IF p.month = None THEN today ELSE p.month
        term_value == IF p.term # "" THEN p.term ELSE CalculateTerm(config, month)
        computed == CalculateFinalGrade(config, p.grade1, p.grade2, p.recovery_grade)
        row == [student |-> p.student_id, classroom |-> p.classroom_id,
                subject |-> p.subject, term |-> term_value, month |-> month,
                grade1 |-> StoreDecimal(p.grade1, rounding),
                grade2 |-> StoreDecimal(p.grade2, rounding),
                recovery_grade |-> StoreDecimal(p.recovery_grade, rounding),
                average |-> Quantize(computed.average, rounding),
                final_grade |-> Quantize(computed.final_grade, rounding)]
        \* update_or_create
        rows == {r \in grades : ~SameGradeKey(r, row)} \cup {row}
        fail(status, error) ==
            /\ last' = Exchange("grades_post", key, p, status, error)
            /\ UNCHANGED grades
    IN /\ UNCHANGED <<profiles, recordVars, tokenVars, schedVars, gradingConfig, rounding,
                      financeVars>>
       /\ IF user = None THEN fail(401, "Unauthorized")
          ELSE IF school = None THEN fail(400, "School not configured for user")
          ELSE IF ~RequireRoles(user, GRADE_ROLES) THEN fail(403, "Forbidden")
          ELSE IF None \in {p.student_id, p.classroom_id} \/ p.subject = ""
               THEN fail(400, "Missing required fields")
          ELSE IF StudentSchool[p.student_id] # school
                  \/ ClassroomSchool[p.classroom_id] # school
               THEN fail(404, "Not found")
          ELSE IF ~GradeInRange(p.grade1) \/ ~GradeInRange(p.grade2)
                  \/ ~GradeInRange(p.recovery_grade)
               THEN fail(400, "Grade out of range")
          ELSE IF ~ValidMonth(p.month) THEN fail(400, "Invalid date")
          ELSE /\ Cardinality(rows) <= MaxGrades
               /\ grades' = rows
               /\ last' = Reply("grades_post", key, p, 201,
                                [term |-> term_value, month |-> month])

\* PATCH /api/grades/<id>/ on the row `record`.
GradeDetailPatch(key, record, p) ==
    LET user == GetUserFromRequest(key)
        school == RequireProfileSchool(user)
        found == record \in grades /\ StudentSchool[record.student] = school
        config == gradingConfig[school]
        grade1 == IF p.grade1 = Absent THEN FromStored(record.grade1) ELSE p.grade1
        grade2 == IF p.grade2 = Absent THEN FromStored(record.grade2) ELSE p.grade2
        recovery_grade == IF p.recovery_grade = Absent
                          THEN FromStored(record.recovery_grade)
                          ELSE p.recovery_grade
        month == IF p.month = Absent THEN record.month ELSE p.month
        term == IF p.term = Unset THEN record.term ELSE p.term
        term_value == IF term = "" THEN CalculateTerm(config, month) ELSE term
        computed == CalculateFinalGrade(config, grade1, grade2, recovery_grade)
        row == [student |-> record.student, classroom |-> record.classroom,
                subject |-> record.subject, term |-> term_value, month |-> month,
                grade1 |-> StoreDecimal(grade1, rounding),
                grade2 |-> StoreDecimal(grade2, rounding),
                recovery_grade |-> StoreDecimal(recovery_grade, rounding),
                average |-> Quantize(computed.average, rounding),
                final_grade |-> Quantize(computed.final_grade, rounding)]
        fail(status, error) ==
            /\ last' = Exchange("grade_patch", key, <<record, p>>, status, error)
            /\ UNCHANGED grades
    IN /\ UNCHANGED <<profiles, recordVars, tokenVars, schedVars, gradingConfig, rounding,
                      financeVars>>
       /\ IF user = None THEN fail(401, "Unauthorized")
          ELSE IF school = None THEN fail(400, "School not configured for user")
          ELSE IF ~found THEN fail(404, "Not found")
          ELSE IF ~RequireRoles(user, GRADE_ROLES) THEN fail(403, "Forbidden")
          ELSE IF \/ (p.grade1 # Absent /\ ~GradeInRange(p.grade1))
                  \/ (p.grade2 # Absent /\ ~GradeInRange(p.grade2))
                  \/ (p.recovery_grade # Absent /\ ~GradeInRange(p.recovery_grade))
               THEN fail(400, "Grade out of range")
          ELSE IF p.month # Absent /\ ~ValidMonth(p.month)
               THEN fail(400, "Invalid date")
          \* record.save(): the unique constraint rejects a second row with the
          \* key, and the uncaught IntegrityError is a 500.
          ELSE IF \E r \in grades \ {record} : SameGradeKey(r, row)
               THEN fail(500, "IntegrityError")
          ELSE /\ grades' = (grades \ {record}) \cup {row}
               /\ last' = Reply("grade_patch", key, <<record, p>>, 200,
                                [term |-> term_value, month |-> month])

\* DELETE /api/grades/<id>/ on the row `record`.
GradeDetailDelete(key, record) ==
    LET user == GetUserFromRequest(key)
        school == RequireProfileSchool(user)
        found == record \in grades /\ StudentSchool[record.student] = school
        fail(status, error) ==
            /\ last' = Exchange("grade_delete", key, record, status, error)
            /\ UNCHANGED grades
    IN /\ UNCHANGED <<profiles, recordVars, tokenVars, schedVars, gradingConfig, rounding,
                      financeVars>>
       /\ IF user = None THEN fail(401, "Unauthorized")
          ELSE IF school = None THEN fail(400, "School not configured for user")
          ELSE IF ~found THEN fail(404, "Not found")
          ELSE IF ~RequireRoles(user, GRADE_ROLES) THEN fail(403, "Forbidden")
          ELSE /\ grades' = grades \ {record}
               /\ last' = Exchange("grade_delete", key, record, 200, "")

\* PATCH /api/grading-config/
GradingConfigPatch(key, p) ==
    LET user == GetUserFromRequest(key)
        school == RequireProfileSchool(user)
        \* get_or_create, ahead of the role check
        config == IF gradingConfig[school].present THEN gradingConfig[school]
                  ELSE DefaultConfig
        created == [gradingConfig EXCEPT ![school] = config]
        saved ==
            [config EXCEPT
               !.system = IF p.system = Unset THEN @ ELSE p.system,
               !.calculation_method =
                    IF p.calculation_method = Unset THEN @ ELSE p.calculation_method,
               !.weights = IF p.weights = KeepWeights THEN @ ELSE p.weights,
               !.recovery_rule =
                    IF p.recovery_rule = Unset THEN @ ELSE p.recovery_rule]
        refuse(status, error) ==
            last' = Exchange("grading_config_patch", key, p, status, error)
    IN /\ UNCHANGED <<profiles, recordVars, tokenVars, schedVars, grades, rounding, financeVars>>
       /\ IF user = None
          THEN refuse(401, "Unauthorized") /\ UNCHANGED gradingConfig
          ELSE IF school = None
          THEN refuse(400, "School not configured for user") /\ UNCHANGED gradingConfig
          ELSE IF ~RequireRoles(user, GRADING_CONFIG_ROLES)
          THEN refuse(403, "Forbidden") /\ gradingConfig' = created
          ELSE IF p.system \notin {Unset, SYSTEM_BIMESTRAL, SYSTEM_TRIMESTRAL}
                  \/ p.calculation_method
                        \notin {Unset, METHOD_ARITHMETIC, METHOD_WEIGHTED}
          THEN refuse(400, "Invalid value") /\ gradingConfig' = created
          ELSE /\ gradingConfig' = [gradingConfig EXCEPT ![school] = saved]
               /\ last' = Exchange("grading_config_patch", key, p, 200, "")

(***************************************************************************)
(* Grade requests.                                                         *)
(***************************************************************************)
GradePayload(student, subject, grade1, grade2, recovery_grade, month, term) ==
    [student_id |-> student, classroom_id |-> 1, subject |-> subject,
     grade1 |-> grade1, grade2 |-> grade2, recovery_grade |-> recovery_grade,
     month |-> month, term |-> term]

GradePatch(grade1, grade2, recovery_grade, month, term) ==
    [grade1 |-> grade1, grade2 |-> grade2, recovery_grade |-> recovery_grade,
     month |-> month, term |-> term]

\* The months a request can arrive in; the handler reads the day only when the
\* payload has no date.
ArrivalMonths(p) ==
    IF p.month = None THEN Months ELSE {CHOOSE m \in Months : TRUE}

GradeCallers == {1, 2, 3, 5, 6, None}

\* Requests <<token key, payload>> that exercise the grade arithmetic.
GradePostRequests ==
    {<<2, GradePayload(1, "Matematica", g1, g2, r, 5, "")>> :
        g1 \in {None, 6000, 7250}, g2 \in {None, 4000, 7545}, r \in {None, 8000}}
    \cup {<<k, GradePayload(1, "Matematica", 6000, 4000, None, 5, "")>> :
            k \in {3, 5, 6, None}}
    \cup {<<2, GradePayload(2, "Matematica", 6000, 4000, None, 5, "")>>,
          <<2, GradePayload(None, "Matematica", 6000, 4000, None, 5, "")>>,
          <<2, GradePayload(1, "", 6000, 4000, None, 5, "")>>,
          <<2, GradePayload(1, "Matematica", 10001, 4000, None, 5, "")>>,
          <<2, GradePayload(1, "Matematica", 6000, 4000, 10001, 5, "")>>,
          <<2, GradePayload(1, "Matematica", 6000, 4000, None, 13, "")>>}

GradePatchRequests ==
    {<<1, GradePatch(g, Absent, Absent, Absent, Unset)>> : g \in {None, 6000, 7250, 10001}}
    \cup {<<1, GradePatch(Absent, g, Absent, Absent, Unset)>> : g \in {None, 4000, 7545}}
    \cup {<<1, GradePatch(Absent, Absent, r, Absent, Unset)>> : r \in {None, 8000}}
    \cup {<<k, GradePatch(Absent, Absent, Absent, Absent, Unset)>> :
            k \in {1, 3, 5, 6, None}}

\* The grading configurations the arithmetic is checked under.
GradingConfigs ==
    {NoConfig}
    \cup {Config(SYSTEM_BIMESTRAL, METHOD_ARITHMETIC, DefaultWeight, DefaultWeight, rule) :
            rule \in {"", "max", "average", "replace", "best"}}
    \cup {Config(SYSTEM_BIMESTRAL, METHOD_WEIGHTED, None, None, ""),
          Config(SYSTEM_BIMESTRAL, METHOD_WEIGHTED, 60, 30, "average"),
          Config(SYSTEM_BIMESTRAL, METHOD_WEIGHTED, 0, 0, "max"),
          Config(SYSTEM_BIMESTRAL, METHOD_WEIGHTED, 70, None, "replace")}

\* School 1 has any of the configurations, the database either rounding.
InitGrade ==
    /\ InitRows
    /\ \E config \in GradingConfigs :
          gradingConfig = [s \in Schools |-> IF s = 1 THEN config ELSE NoConfig]
    /\ rounding \in Roundings

NextGrade ==
    \/ \E r \in GradePostRequests : \E today \in ArrivalMonths(r[2]) :
          GradesPost(r[1], r[2], today)
    \/ \E r \in GradePatchRequests, record \in grades \cup {MissingGrade} :
          GradeDetailPatch(r[1], record, r[2])
    \/ \E key \in GradeCallers, record \in grades \cup {MissingGrade} :
          GradeDetailDelete(key, record)

SpecGrade == InitGrade /\ [][NextGrade]_vars

\* Requests that exercise the term of a grade record.
TermPostRequests ==
    {<<2, GradePayload(1, "Matematica", 6000, 4000, None, m, "")>> :
        m \in Months \cup {None, 13}}
    \cup {<<2, GradePayload(1, "Matematica", 6000, 4000, None, 5, "9")>>}
    \cup {<<None, GradePayload(1, "Matematica", 6000, 4000, None, 5, "")>>}

TermPatchRequests ==
    {<<1, GradePatch(Absent, Absent, Absent, 3, Unset)>>,
     <<1, GradePatch(Absent, Absent, Absent, None, Unset)>>,
     <<1, GradePatch(Absent, Absent, Absent, Absent, "")>>,
     <<1, GradePatch(Absent, Absent, Absent, Absent, "9")>>,
     <<1, GradePatch(Absent, Absent, Absent, 8, "")>>,
     <<None, GradePatch(Absent, Absent, Absent, 3, Unset)>>}

GradingConfigRequests ==
    {<<1, [system |-> sys, calculation_method |-> Unset, weights |-> KeepWeights,
           recovery_rule |-> Unset]>> :
        sys \in {SYSTEM_BIMESTRAL, SYSTEM_TRIMESTRAL, "anual"}}
    \cup {<<k, [system |-> SYSTEM_TRIMESTRAL, calculation_method |-> Unset,
                weights |-> KeepWeights, recovery_rule |-> Unset]>> :
            k \in {2, 6, None}}

NextTerm ==
    \/ \E r \in TermPostRequests : \E today \in ArrivalMonths(r[2]) :
          GradesPost(r[1], r[2], today)
    \/ \E r \in TermPatchRequests, record \in grades \cup {MissingGrade} :
          GradeDetailPatch(r[1], record, r[2])
    \/ \E key \in {1, None}, record \in grades \cup {MissingGrade} :
          GradeDetailDelete(key, record)
    \/ \E r \in GradingConfigRequests : GradingConfigPatch(r[1], r[2])

\* The grades of these requests are whole, so nothing is rounded.
SpecTerm == Init /\ [][NextTerm]_vars

(***************************************************************************)
(* Grade claims.                                                           *)
(***************************************************************************)
\* The last exchange wrote a grade row.
GradeWritten ==
    \/ last.op = "grades_post" /\ last.status = 201
    \/ last.op = "grade_patch" /\ last.status = 200

\* The row the last exchange wrote: the row of the response.
WrittenRow ==
    LET student == IF last.op = "grades_post" THEN last.args.student_id
                   ELSE last.args[1].student
        subject == IF last.op = "grades_post" THEN last.args.subject
                   ELSE last.args[1].subject
    IN CHOOSE row \in grades :
          /\ row.student = student /\ row.subject = subject
          /\ row.term = last.data.term

\* The grade values the last exchange computed from, in thousandths: those of
\* the payload, and on a PATCH the stored value of a field the payload leaves out.
Grade1Used ==
    IF last.op = "grades_post" THEN last.args.grade1
    ELSE IF last.args[2].grade1 # Absent THEN last.args[2].grade1
    ELSE IF last.args[1].grade1 = None THEN None ELSE 10 * last.args[1].grade1

Grade2Used ==
    IF last.op = "grades_post" THEN last.args.grade2
    ELSE IF last.args[2].grade2 # Absent THEN last.args[2].grade2
    ELSE IF last.args[1].grade2 = None THEN None ELSE 10 * last.args[1].grade2

ConfigOf(row) == gradingConfig[StudentSchool[row.student]]

Weighted(config) ==
    config.present /\ config.calculation_method = METHOD_WEIGHTED

ExamWeight(config) ==
    IF config.weights.exam = None THEN 50 ELSE config.weights.exam

ActivitiesWeight(config) ==
    IF config.weights.activities = None THEN 50 ELSE config.weights.activities

Distance(a, b) == IF a >= b THEN a - b ELSE b - a

\* The stored value h (hundredths) is a nearest hundredth of n/d thousandths.
NearestHundredth(h, n, d) == 2 * Distance(10 * d * h, n) <= 10 * d

\* C4, as amended: after a grades POST or grade PATCH that computes from two
\* grades, the stored average is the arithmetic mean (arithmetic method or no
\* config) or the weighted mean (weights default 50; the divisor is the sum of
\* the two weights, or 100 when that sum is zero) rounded to two decimal
\* places; when either grade is absent, average and final_grade are null.
C4_StoredAverage ==
    GradeWritten =>
        LET row == WrittenRow
            config == ConfigOf(row)
            sum == ExamWeight(config) + ActivitiesWeight(config)
            numerator ==
                IF Weighted(config)
                THEN Grade1Used * ExamWeight(config)
                     + Grade2Used * ActivitiesWeight(config)
                ELSE Grade1Used + Grade2Used
            divisor ==
                IF ~Weighted(config) THEN 2 ELSE IF sum = 0 THEN 100 ELSE sum
        IN IF Grade1Used # None /\ Grade2Used # None
           THEN /\ row.average # None
                /\ NearestHundredth(row.average, numerator, divisor)
           ELSE row.average = None /\ row.final_grade = None

\* A PATCH under the weighted method stored an average that had to be rounded.
C4_Witness ==
    /\ last.op = "grade_patch" /\ last.status = 200
    /\ Weighted(ConfigOf(WrittenRow))
    /\ WrittenRow.grade1 # None /\ WrittenRow.grade2 # None
    /\ ConfigOf(WrittenRow).weights = [exam |-> 60, activities |-> 30]
    /\ WrittenRow.average * 90 # WrittenRow.grade1 * 60 + WrittenRow.grade2 * 30
    /\ WrittenRow.recovery_grade # None

\* C4 as stated: every grade record with both grades holds exactly their
\* arithmetic or weighted mean as its average, and a record lacking a grade
\* holds neither average nor final grade.
C4_ExactAverage ==
    \A row \in grades :
        LET config == ConfigOf(row)
        IN IF row.grade1 # None /\ row.grade2 # None
           THEN /\ row.average # None
                /\ IF Weighted(config)
                   THEN (ExamWeight(config) + ActivitiesWeight(config)) * row.average
                           = row.grade1 * ExamWeight(config)
                             + row.grade2 * ActivitiesWeight(config)
                   ELSE 2 * row.average = row.grade1 + row.grade2
           ELSE row.average = None /\ row.final_grade = None

RecoveryRule(config) == IF config.present THEN config.recovery_rule ELSE ""

Larger(a, b) == IF a >= b THEN a ELSE b

TermOfMonth(system, month) ==
    IF system = SYSTEM_TRIMESTRAL
    THEN IF month \in 1..3 THEN "1" ELSE IF month \in 4..6 THEN "2" ELSE "3"
    ELSE IF month \in 1..2 THEN "1"
    ELSE IF month \in 3..4 THEN "2"
    ELSE IF month \in 5..6 THEN "3"
    ELSE "4"

\* C6: a grades POST without a term stores the term of the month of the
\* record's date (the payload's date, or the day of the request) under the
\* school's grading system, bimestral when the school has no config; a
\* non-empty term in the payload is stored instead.
C6_DerivedTerm ==
    last.op = "grades_post" /\ last.status = 201 =>
        LET row == WrittenRow
            config == ConfigOf(row)
            system == IF config.present THEN config.system ELSE SYSTEM_BIMESTRAL
        IN /\ row.month \in Months
           /\ last.args.month # None => row.month = last.args.month
           /\ row.term = IF last.args.term # "" THEN last.args.term
                         ELSE TermOfMonth(system, row.month)

\* A trimestral school stored term "3" for a POST without term dated October.
C6_Witness ==
    /\ last.op = "grades_post" /\ last.status = 201
    /\ last.args.term = "" /\ last.args.month = 10
    /\ gradingConfig[1].present /\ gradingConfig[1].system = SYSTEM_TRIMESTRAL
    /\ WrittenRow.term = "3"

(***************************************************************************)
(* Tokens, invoices and the text-generation endpoints.                     *)
(***************************************************************************)
\* Bounds: tokens issued after the seed, Invoice rows, prompts forwarded.
MaxIssued == 2
MaxInvoices == 2
MaxPrompts == 2

REVOKE_ROLES == {ROLE_ADMIN, ROLE_DIRECTOR}
INVOICE_ROLES == {ROLE_ADMIN, ROLE_DIRECTOR, ROLE_FINANCE}

AI_ENDPOINTS ==
    {"generate_insight", "generate_lesson_plan", "analyze_financial_health",
     "generate_school_document"}

\* ApiToken.issue_for_user: the table with a token of a new key for the user.
\* secrets.token_urlsafe(32) draws 256 random bits; the model takes the draw
\* to be a key never issued before.
IssueForUser(table, user) ==
    [k \in DOMAIN table \cup {nextKey} |-> IF k = nextKey THEN user ELSE table[k]]

\* QuerySet.delete of the token with the key.
DeleteToken(table, key) == [k \in DOMAIN table \ {key} |-> table[k]]

CanIssue == nextKey - Cardinality(DOMAIN SeedTokens) <= MaxIssued

\* POST /api/auth/login/; `user` is the user the credentials authenticate,
\* None when they authenticate nobody.
LoginUser(user) ==
    /\ UNCHANGED <<profiles, recordVars, schedVars, gradeVars, financeVars>>
    /\ IF user = None
       THEN /\ last' = Exchange("login", None, user, 401, "Invalid credentials")
            /\ UNCHANGED tokenVars
       ELSE /\ CanIssue
            /\ tokens' = IssueForUser(tokens, user)
            /\ nextKey' = nextKey + 1
            /\ last' = Reply("login", None, user, 200, nextKey)

\* POST /api/auth/logout/
LogoutUser(key) ==
    /\ UNCHANGED <<profiles, recordVars, nextKey, schedVars, gradeVars, financeVars>>
    /\ IF GetUserFromRequest(key) = None
       THEN /\ last' = Exchange("logout", key, <<>>, 401, "Unauthorized")
            /\ UNCHANGED tokens
       ELSE /\ tokens' = DeleteToken(tokens, key)
            /\ last' = Exchange("logout", key, <<>>, 200, "")

\* As refresh_token, but the presented token is not deleted.
RefreshTokenKeepingOld(key) ==
    /\ UNCHANGED <<profiles, recordVars, schedVars, gradeVars, financeVars>>
    /\ IF GetUserFromRequest(key) = None
       THEN /\ last' = Exchange("refresh_token", key, <<>>, 401, "Unauthorized")
            /\ UNCHANGED tokenVars
       ELSE /\ CanIssue
            /\ tokens' = IssueForUser(tokens, tokens[key])
            /\ nextKey' = nextKey + 1
            /\ last' = Reply("refresh_token", key, <<>>, 200, nextKey)

\* POST /api/auth/refresh/
RefreshToken(key) ==
    /\ UNCHANGED <<profiles, recordVars, schedVars, gradeVars, financeVars>>
    /\ IF GetUserFromRequest(key) = None
       THEN /\ last' = Exchange("refresh_token", key, <<>>, 401, "Unauthorized")
            /\ UNCHANGED tokenVars
       ELSE /\ CanIssue
            /\ tokens' = IssueForUser(DeleteToken(tokens, key), tokens[key])
            /\ nextKey' = nextKey + 1
            /\ last' = Reply("refresh_token", key, <<>>, 200, nextKey)

\* As revoke_token, but the role of the caller is not looked at.
RevokeTokenAnyRole(key, token_key) ==
    LET user == GetUserFromRequest(key)
        refuse(status, error) ==
            /\ last' = Exchange("revoke_token", key, token_key, status, error)
            /\ UNCHANGED tokens
    IN /\ UNCHANGED <<profiles, recordVars, nextKey, schedVars, gradeVars, financeVars>>
       /\ IF user = None THEN refuse(401, "Unauthorized")
          ELSE IF token_key = None
          THEN /\ tokens' = DeleteToken(tokens, key)
               /\ last' = Exchange("revoke_token", key, token_key, 200, "")
          ELSE IF token_key \notin DOMAIN tokens THEN refuse(404, "Not found")
          ELSE /\ tokens' = DeleteToken(tokens, token_key)
               /\ last' = Exchange("revoke_token", key, token_key, 200, "")

\* POST /api/auth/revoke/ with token_key in the payload (None: not given).
RevokeToken(key, token_key) ==
    LET user == GetUserFromRequest(key)
        refuse(status, error) ==
            /\ last' = Exchange("revoke_token", key, token_key, status, error)
            /\ UNCHANGED tokens
    IN /\ UNCHANGED <<profiles, recordVars, nextKey, schedVars, gradeVars, financeVars>>
       /\ IF user = None THEN refuse(401, "Unauthorized")
          ELSE IF token_key = None
          THEN /\ tokens' = DeleteToken(tokens, key)
               /\ last' = Exchange("revoke_token", key, token_key, 200, "")
          ELSE IF ~RequireRoles(user, REVOKE_ROLES) THEN refuse(403, "Forbidden")
          ELSE IF token_key \notin DOMAIN tokens THEN refuse(404, "Not found")
          ELSE /\ tokens' = DeleteToken(tokens, token_key)
               /\ last' = Exchange("revoke_token", key, token_key, 200, "")

INVOICE_STATUSES == {"open", "paid", "overdue", "cancelled"}

\* Python's None where a date is expected.
NoDate == <<0, 0, 0>>

\* POST /api/invoices/; a field of None is missing from the payload, status is
\* a text or Unset, paid_at is a well-formed <<year, month, day>> or NoDate
\* when it is not sent, and reference_month is not sent.
InvoicesPost(key, p) ==
    LET user == GetUserFromRequest(key)
        school == RequireProfileSchool(user)
        refuse(status, error) ==
            /\ last' = Exchange("invoices_post", key, p, status, error)
            /\ UNCHANGED invoices
    IN /\ UNCHANGED <<profiles, recordVars, tokenVars, schedVars, gradeVars, prompts>>
       /\ IF user = None THEN refuse(401, "Unauthorized")
          ELSE IF school = None THEN refuse(400, "School not configured for user")
          ELSE IF None \in {p.student_id, p.amount, p.due_month}
               THEN refuse(400, "Missing required fields")
          ELSE IF p.status # Unset /\ p.status \notin INVOICE_STATUSES
               THEN refuse(400, "Invalid value")
          ELSE IF ~ValidMonth(p.due_month) THEN refuse(400, "Invalid date")
          ELSE IF p.status = "paid" /\ p.paid_at = NoDate
               THEN refuse(400, "paid_at required when status is paid")
          ELSE IF ~RequireRoles(user, INVOICE_ROLES) THEN refuse(403, "Forbidden")
          ELSE IF StudentSchool[p.student_id] # school THEN refuse(404, "Not found")
          ELSE /\ Len(invoices) < MaxInvoices
               /\ invoices' = Append(invoices,
                      [student |-> p.student_id, amount |-> p.amount,
                       due_month |-> p.due_month,
                       status |-> IF p.status = Unset THEN "open" ELSE p.status,
                       paid_at |-> p.paid_at])
               /\ last' = Exchange("invoices_post", key, p, 201, "")

\* POST to generate_insight, generate_lesson_plan, analyze_financial_health or
\* generate_school_document; `complete` tells whether the payload has the
\* fields the endpoint requires.
GenerateText(key, endpoint, complete) ==
    /\ UNCHANGED <<profiles, recordVars, tokenVars, schedVars, gradeVars, invoices>>
    /\ IF ~complete
       THEN /\ last' = Exchange(endpoint, key, complete, 400, "Missing required fields")
            /\ UNCHANGED prompts
       ELSE /\ prompts < MaxPrompts
            /\ prompts' = prompts + 1
            /\ last' = Exchange(endpoint, key, complete, 200, "")

InvoicePayload(student, amount, due_month) ==
    [student_id |-> student, amount |-> amount, due_month |-> due_month,
     status |-> Unset, paid_at |-> NoDate]

\* Requests <<token key, payload>>.
InvoiceRequests ==
    {<<k, InvoicePayload(1, 15000, 5)>> : k \in {1, 2, 3, 4, 5, 6, 7, None}}
    \cup {<<4, InvoicePayload(2, 15000, 5)>>,
          <<4, InvoicePayload(1, None, 5)>>,
          <<3, InvoicePayload(1, None, 5)>>,
          <<4, InvoicePayload(1, 15000, 13)>>,
          <<5, InvoicePayload(2, 15000, 5)>>}

\* Requests <<token key, token_key>>.
RevokeRequests ==
    {<<1, 4>>, <<1, 5>>, <<1, 0>>, <<3, 4>>, <<3, 0>>, <<4, None>>, <<None, 4>>}

NextAuth ==
    \/ \E user \in {4, None} : LoginUser(user)
    \/ \E key \in {4, 7, None} : LogoutUser(key)
    \/ \E key \in {4, 7, 8, None} : RefreshToken(key)
    \/ \E r \in RevokeRequests : RevokeToken(r[1], r[2])
    \/ \E r \in InvoiceRequests : InvoicesPost(r[1], r[2])
    \/ \E key \in {4, None}, endpoint \in AI_ENDPOINTS, complete \in BOOLEAN :
          GenerateText(key, endpoint, complete)

SpecAuth == Init /\ [][NextAuth]_vars

(***************************************************************************)
(* Authorisation claims.  `last'` is the exchange of the step and the      *)
(* unprimed variables are the tables the request met.                      *)
(***************************************************************************)
\* The step's request presented a stored token.
Authenticated == last'.key \in DOMAIN tokens

\* The profile of the step's caller.
Caller == profiles[tokens[last'.key]]

\* The invoice payload has its required fields and a well-formed date.
WellFormedInvoice(p) ==
    None \notin {p.student_id, p.amount, p.due_month} /\ p.due_month \in Months

\* A caller outside the invoice roles creates no invoice, and is answered 403
\* when the caller has a school and the payload is well formed.
InvoiceRefused ==
    last'.op = "invoices_post" /\ Authenticated
        /\ Caller.role \notin {ROLE_ADMIN, ROLE_DIRECTOR, ROLE_FINANCE}
    => /\ invoices' = invoices
       /\ Caller.school # None /\ WellFormedInvoice(last'.args)
              => last'.status = 403

\* A finance user of the student's school is answered 201 and one invoice, of
\* that student, is added.
InvoiceCreated ==
    last'.op = "invoices_post" /\ Authenticated
        /\ Caller.role = ROLE_FINANCE /\ WellFormedInvoice(last'.args)
        /\ StudentSchool[last'.args.student_id] = Caller.school
    => /\ last'.status = 201
       /\ Len(invoices') = Len(invoices) + 1
       /\ SubSeq(invoices', 1, Len(invoices)) = invoices
       /\ invoices'[Len(invoices')].student = last'.args.student_id

\* C7, as amended: a well-formed POST to /api/invoices/ by an authenticated
\* user of a school whose role is not admin, director or finance is answered
\* 403; no user outside those roles creates an invoice, whatever the answer;
\* the request by a finance user of the student's school is answered 201 and
\* creates exactly one invoice.
C7_InvoiceRoles == [][InvoiceRefused /\ InvoiceCreated]_vars

\* A support user was answered 403 after an invoice had been created.
C7_Witness ==
    /\ last.op = "invoices_post" /\ last.status = 403
    /\ last.key \in DOMAIN tokens
    /\ profiles[tokens[last.key]].role = ROLE_SUPPORT
    /\ Len(invoices) = 1

\* C7 as stated: every authenticated user outside the three roles is answered
\* 403 to the well-formed request and creates no invoice, and the finance user
\* of the student's school is answered 201 and creates one.
C7_AlwaysForbidden ==
    [][/\ last'.op = "invoices_post" /\ Authenticated
              /\ Caller.role \notin {ROLE_ADMIN, ROLE_DIRECTOR, ROLE_FINANCE}
              /\ WellFormedInvoice(last'.args)
          => last'.status = 403 /\ invoices' = invoices
       /\ InvoiceCreated]_vars

\* C8 as stated: a request to any endpoint but login (register and the
\* password resets are not modelled) that carries no stored token is answered
\* 401 and changes nothing.
C8_TokenRequired ==
    [][last'.op # "login" /\ ~Authenticated
          => /\ last'.status = 401
             /\ UNCHANGED <<profiles, recordVars, tokenVars, schedVars, gradeVars, financeVars>>]_vars

\* C9 as stated, for the records of these endpoints: a step by an
\* authenticated user of a school deletes no token of a user of another
\* school and creates no invoice for a student of another school.
C9_TenantIsolation ==
    [][Authenticated /\ Caller.school # None
          => /\ \A k \in DOMAIN tokens \ DOMAIN tokens' :
                    profiles[tokens[k]].school = Caller.school
             /\ \A i \in (Len(invoices) + 1)..Len(invoices') :
                    StudentSchool[invoices'[i].student] = Caller.school]_vars

\* A successful refresh returns a key other than the presented one, deletes
\* the presented token and stores the returned one for the same user.
RefreshRotates ==
    last'.op = "refresh_token" /\ last'.status = 200
    => /\ last'.data # last'.key
       /\ last'.key \notin DOMAIN tokens'
       /\ last'.data \in DOMAIN tokens'
       /\ tokens'[last'.data] = tokens[last'.key]

\* A key that was issued and is no longer stored is never stored again.
RetiredStaysRetired ==
    \A k \in 1..(nextKey - 1) : k \notin DOMAIN tokens => k \notin DOMAIN tokens'

\* A request that presents a key that is not stored and that needs a token is
\* answered 401.
RetiredIsRefused ==
    last'.op \in {"logout", "refresh_token", "revoke_token", "invoices_post"}
        /\ ~Authenticated
    => last'.status = 401

\* C10: a successful refresh returns a key different from the presented one;
\* from then on the presented key is not a stored token, so it authenticates
\* no request, and the returned key is the token of the same user.
C10_RefreshRotates ==
    [][RefreshRotates /\ RetiredStaysRetired /\ RetiredIsRefused]_vars

\* A token obtained by a refresh was itself refreshed, and its key is gone.
C10_Witness ==
    /\ last.op = "refresh_token" /\ last.status = 200
    /\ last.key = 7 /\ last.data = 8
    /\ DOMAIN tokens \cap {4, 7, 8} = {8}
    /\ tokens[8] = 4

(***************************************************************************)
(* Revocation.                                                             *)
(***************************************************************************)
\* A revoke that names a token: 403 for a caller outside admin and director,
\* 404 for an admin or director naming a key that is not stored, and otherwise
\* 200 with exactly the named token deleted.
RevokeNamed ==
    last'.op = "revoke_token" /\ Authenticated /\ last'.args # None
    => /\ Caller.role \notin {ROLE_ADMIN, ROLE_DIRECTOR}
             => last'.status = 403 /\ tokens' = tokens
       /\ Caller.role \in {ROLE_ADMIN, ROLE_DIRECTOR}
             /\ last'.args \notin DOMAIN tokens
             => last'.status = 404 /\ tokens' = tokens
       /\ Caller.role \in {ROLE_ADMIN, ROLE_DIRECTOR}
             /\ last'.args \in DOMAIN tokens
             => last'.status = 200 /\ tokens' = DeleteToken(tokens, last'.args)

\* A revoke that names no token deletes exactly the presented token.
RevokeOwn ==
    last'.op = "revoke_token" /\ Authenticated /\ last'.args = None
    => last'.status = 200 /\ tokens' = DeleteToken(tokens, last'.key)

\* C11: POST /api/auth/revoke/ with a token_key is answered 403 to a caller
\* whose role is not admin or director, 404 to an admin or director naming an
\* unknown key, and otherwise deletes exactly the named token; without a
\* token_key it deletes exactly the presented token; a deleted key is never
\* stored again and a request presenting it is answered 401.
C11_RevokeToken ==
    [][RevokeNamed /\ RevokeOwn /\ RetiredStaysRetired /\ RetiredIsRefused]_vars

\* An admin revoked the token of the finance user, who had logged in again
\* and keeps the second token.
C11_Witness ==
    /\ last.op = "revoke_token" /\ last.status = 200
    /\ last.key = 1 /\ last.args = 4
    /\ 4 \notin DOMAIN tokens /\ 1 \in DOMAIN tokens
    /\ 7 \in DOMAIN tokens /\ tokens[7] = 4

(***************************************************************************)
(* Paginated lists.  A query parameter is [given, text]: whether the query *)
(* string has it, and its characters.                                      *)
(***************************************************************************)
DefaultPage == 1
DefaultPageSize == 25
MaxPageSize == 100

DigitValue ==
    ("0" :> 0) @@ ("1" :> 1) @@ ("2" :> 2) @@ ("3" :> 3) @@ ("4" :> 4) @@
    ("5" :> 5) @@ ("6" :> 6) @@ ("7" :> 7) @@ ("8" :> 8) @@ ("9" :> 9)

Max(a, b) == IF a >= b THEN a ELSE b
Min(a, b) == IF a <= b THEN a ELSE b

\* The value of a string of digits.
RECURSIVE DigitsValue(_)
DigitsValue(text) ==
    IF text = <<>> THEN 0
    ELSE 10 * DigitsValue(SubSeq(text, 1, Len(text) - 1)) + DigitValue[text[Len(text)]]

\* int(text) for a text without blanks or underscores: an optional sign and
\* one or more digits; [ok |-> FALSE] stands for ValueError.
ParseInt(text) ==
    LET signed == text # <<>> /\ text[1] \in {"-", "+"}
        digits == IF signed THEN Tail(text) ELSE text
    IN IF digits = <<>> \/ \E i \in DOMAIN digits : digits[i] \notin DOMAIN DigitValue
       THEN [ok |-> FALSE, value |-> 0]
       ELSE [ok |-> TRUE,
             value |-> IF signed /\ text[1] = "-" THEN 0 - DigitsValue(digits)
                       ELSE DigitsValue(digits)]

\* int(request.GET.get(name, default)) with ValueError answered by the default.
IntParam(param, default) ==
    IF ~param.given THEN default
    ELSE IF ParseInt(param.text).ok THEN ParseInt(param.text).value
    ELSE default

\* As ClampPageSize, without the ceiling of 100.
ClampPageSizeNoCeiling(page_size) == Max(page_size, 1)

ClampPage(page) == Max(page, 1)
ClampPageSize(page_size) == Min(Max(page_size, 1), MaxPageSize)

\* Paginator.num_pages for a non-empty object list.
NumPages(count, per_page) == (count + per_page - 1) \div per_page

\* Paginator.page(number).object_list
PageObjects(queryset, per_page, number) ==
    LET bottom == (number - 1) * per_page
        top == Min(bottom + per_page, Len(queryset))
    IN SubSeq(queryset, bottom + 1, top)

\* _paginate over the ordered rows `queryset`; the answer is the serialized
\* rows and the pagination block.
Paginate(page_param, page_size_param, queryset) ==
    LET page == ClampPage(IntParam(page_param, DefaultPage))
        page_size == ClampPageSize(IntParam(page_size_param, DefaultPageSize))
        count == Len(queryset)
        num_pages == NumPages(count, page_size)
        number == IF page > num_pages THEN num_pages ELSE page
    IN IF count = 0
       THEN [data |-> <<>>,
             pagination |-> [page |-> 1, page_size |-> page_size,
                             total |-> 0, total_pages |-> 0]]
       ELSE [data |-> PageObjects(queryset, page_size, number),
             pagination |-> [page |-> number, page_size |-> page_size,
                             total |-> count, total_pages |-> num_pages]]

\* _serialize_invoice of every Invoice row, in creation order.
SerializedInvoices ==
    [i \in DOMAIN invoices |->
        [id |-> i, student_id |-> invoices[i].student,
         amount |-> invoices[i].amount, due_month |-> invoices[i].due_month,
         status |-> invoices[i].status, paid_at |-> invoices[i].paid_at]]

\* order_by("-due_date"): the rows by due month, latest first; rows due in
\* the same month keep their creation order.
RECURSIVE OrderByDueDateDesc(_, _)
OrderByDueDateDesc(rows, month) ==
    IF month = 0 THEN <<>>
    ELSE SelectSeq(rows, LAMBDA r : r.due_month = month)
             \o OrderByDueDateDesc(rows, month - 1)

\* GET /api/invoices/ with the query parameters page and page_size only.
InvoicesGet(key, page, page_size) ==
    LET user == GetUserFromRequest(key)
        school == RequireProfileSchool(user)
        args == [page |-> page, page_size |-> page_size]
        items == SelectSeq(SerializedInvoices,
                           LAMBDA r : StudentSchool[r.student_id] = school)
    IN /\ UNCHANGED <<profiles, recordVars, tokenVars, schedVars, gradeVars, financeVars>>
       /\ IF user = None
          THEN last' = Exchange("invoices_get", key, args, 401, "Unauthorized")
          ELSE IF school = None
          THEN last' = Exchange("invoices_get", key, args, 400,
                                "School not configured for user")
          ELSE last' = Reply("invoices_get", key, args, 200,
                             Paginate(page, page_size, OrderByDueDateDesc(items, 12)))

\* Query parameters: the one that is not sent, and texts.
NotSent == [given |-> FALSE, text |-> <<>>]
Sent(text) == [given |-> TRUE, text |-> text]

PageParams ==
    {NotSent, Sent(<<>>), Sent(<<"x">>), Sent(<<"1", ".", "5">>),
     Sent(<<"-", "1">>), Sent(<<"0">>), Sent(<<"1">>), Sent(<<"2">>),
     Sent(<<"+", "3">>), Sent(<<"4">>), Sent(<<"3", "1">>)}

PageSizeParams ==
    {NotSent, Sent(<<>>), Sent(<<"x">>), Sent(<<"2", ".", "0">>),
     Sent(<<"-", "5">>), Sent(<<"0">>), Sent(<<"1">>), Sent(<<"2">>),
     Sent(<<"1", "0">>), Sent(<<"1", "0", "0">>), Sent(<<"1", "0", "1">>),
     Sent(<<"2", "5", "0">>)}

\* Numbers of Invoice rows the lists are taken from.
InvoiceCounts == {0, 1, 3, 33, 112}

\* n Invoice rows: every tenth is of the student of school 2, the others of
\* the student of school 1; the due months go round the year.
InvoiceRows(n) ==
    [i \in 1..n |-> [student |-> IF i % 10 = 0 THEN 2 ELSE 1,
                     amount |-> 15000,
                     due_month |-> (i % 12) + 1,
                     status |-> "open",
                     paid_at |-> NoDate]]

InitPage ==
    /\ gradingConfig = [s \in Schools |-> NoConfig]
    /\ rounding = ROUND_HALF_EVEN
    /\ profiles = SeedProfiles
    /\ tokens = SeedTokens
    /\ nextKey = Cardinality(DOMAIN SeedTokens) + 1
    /\ schedule = {}
    /\ avail = {}
    /\ grades = {}
    /\ \E n \in InvoiceCounts : invoices = InvoiceRows(n)
    /\ prompts = 0
    /\ enrollments = {}
    /\ transactions = <<>>
    /\ attendance = <<>>
    /\ justifications = {}
    /\ inflight = {}
    /\ last = Exchange("none", None, <<>>, 0, "")

\* Requests <<token key, page, page_size>>.
InvoiceListRequests ==
    {<<1, page, page_size>> : page \in PageParams, page_size \in PageSizeParams}
    \cup {<<5, page, page_size>> :
              page \in {NotSent, Sent(<<"2">>), Sent(<<"3", "1">>)},
              page_size \in {NotSent, Sent(<<"0">>), Sent(<<"2">>), Sent(<<"1", "0">>)}}
    \cup {<<6, NotSent, NotSent>>, <<None, NotSent, NotSent>>}

NextPage ==
    \/ \E r \in InvoiceListRequests : InvoicesGet(r[1], r[2], r[3])
    \/ \E r \in {<<4, InvoicePayload(1, 15000, 5)>>, <<5, InvoicePayload(2, 15000, 7)>>,
                 <<3, InvoicePayload(1, 15000, 5)>>} :
          InvoicesPost(r[1], r[2])

SpecPage == InitPage /\ [][NextPage]_vars

\* The rows of the caller's school in the last list request.
Matching ==
    {i \in DOMAIN invoices :
        StudentSchool[invoices[i].student] = profiles[tokens[last.key]].school}

\* What the text of a parameter asks for: the default when the parameter is
\* missing or is not an integer numeral.
Asked(param, default) ==
    IF param.given /\ ParseInt(param.text).ok THEN ParseInt(param.text).value
    ELSE default

\* C12: a list answered by _paginate reports page_size as the requested one
\* brought into 1..100 (25 when missing or not a number), total as the number
\* of matching rows and total_pages as ceil(total / page_size); it returns at
\* most page_size items; the page is the requested one (1 when missing or not
\* a number) brought to at least 1 and at most total_pages; the empty result
\* is page 1 of 0 pages.
C12_Paginate ==
    last.op = "invoices_get" /\ last.status = 200 =>
        LET p == last.data.pagination
            size == Asked(last.args.page_size, 25)
            page == Asked(last.args.page, 1)
            total == Cardinality(Matching)
        IN /\ p.page_size \in 1..100
           /\ p.page_size = (IF size < 1 THEN 1 ELSE IF size > 100 THEN 100 ELSE size)
           /\ p.total = total
           /\ p.total_pages * p.page_size >= total
           /\ (p.total_pages - 1) * p.page_size < total
           /\ Len(last.data.data) <= p.page_size
           /\ total = 0 => p.page = 1 /\ p.total_pages = 0 /\ last.data.data = <<>>
           /\ total > 0 =>
                 /\ p.page = (IF page < 1 THEN 1
                              ELSE IF page > p.total_pages THEN p.total_pages
                              ELSE page)
                 /\ Len(last.data.data) =
                        (IF p.page < p.total_pages THEN p.page_size
                         ELSE total - (p.total_pages - 1) * p.page_size)

\* 101 rows match, page 4 of size 250 was asked for: the answer is the second
\* and last page of size 100, holding one row.
C12_Witness ==
    /\ last.op = "invoices_get" /\ last.status = 200
    /\ last.args.page = Sent(<<"4">>)
    /\ last.args.page_size = Sent(<<"2", "5", "0">>)
    /\ last.data.pagination = [page |-> 2, page_size |-> 100, total |-> 101,
                               total_pages |-> 2]
    /\ Len(last.data.data) = 1

(***************************************************************************)
(* Enrollments.  A JSON value of a payload is a record with a kind:        *)
(* "absent" (key not in the payload), "null", "text" with its characters,  *)
(* "number" with its value.                                                *)
(***************************************************************************)
MaxEnrollments == 2

JAbsent == [kind |-> "absent"]
JNull == [kind |-> "null"]
JText(chars) == [kind |-> "text", chars |-> chars]
JNumber(value) == [kind |-> "number", value |-> value]

\* `field not in data or data.get(field) is None or data.get(field) == ""`
JMissing(value) ==
    value.kind \in {"absent", "null"} \/ (value.kind = "text" /\ value.chars = <<>>)

\* Python truth of a JSON value.
JTruthy(value) ==
    \/ value.kind = "text" /\ value.chars # <<>>
    \/ value.kind = "number" /\ value.value # 0

DaysInMonth(year, month) ==
    LET leap == year % 4 = 0 /\ (year % 100 # 0 \/ year % 400 = 0)
    IN IF month = 2 THEN (IF leap THEN 29 ELSE 28)
       ELSE IF month \in {4, 6, 9, 11} THEN 30 ELSE 31

\* django.utils.dateparse.parse_date of a text: outcome "none" when the text
\* is not of the form YYYY-M-D, "ValueError" when it is but names no day of
\* the calendar, "date" with <<year, month, day>> otherwise.
ParseDate(chars) ==
    LET AllDigits(text) == \A k \in DOMAIN text : text[k] \in DOMAIN DigitValue
        dashes == {i \in DOMAIN chars : chars[i] = "-"}
        i == CHOOSE d \in dashes : \A e \in dashes : d <= e
        j == CHOOSE d \in dashes : \A e \in dashes : d >= e
        ys == SubSeq(chars, 1, i - 1)
        ms == SubSeq(chars, i + 1, j - 1)
        ds == SubSeq(chars, j + 1, Len(chars))
        year == DigitsValue(ys)
        month == DigitsValue(ms)
        day == DigitsValue(ds)
    IN IF Cardinality(dashes) # 2 THEN [outcome |-> "none"]
       ELSE IF ~(Len(ys) = 4 /\ Len(ms) \in 1..2 /\ Len(ds) \in 1..2
                 /\ AllDigits(ys) /\ AllDigits(ms) /\ AllDigits(ds))
       THEN [outcome |-> "none"]
       ELSE IF year < 1 \/ month \notin 1..12 \/ day \notin 1..DaysInMonth(year, month)
       THEN [outcome |-> "ValueError"]
       ELSE [outcome |-> "date", date |-> <<year, month, day>>]

\* _parse_date_field: [error, parsed], parsed NoDate for Python's None.  A
\* value that is not a text makes parse_date raise TypeError.
ParseDateField(value) ==
    LET parsed == IF ~JTruthy(value) THEN NoDate
                  ELSE IF value.kind # "text" THEN NoDate
                  ELSE IF ParseDate(value.chars).outcome = "date"
                       THEN ParseDate(value.chars).date
                  ELSE NoDate
    IN [error |-> JTruthy(value) /\ parsed = NoDate, parsed |-> parsed]

ENROLLMENT_STATUSES == {"active", "transferred", "cancelled", "completed"}
ENROLLMENT_ROLES == {ROLE_ADMIN, ROLE_DIRECTOR, ROLE_COORDINATOR, ROLE_STAFF}

\* An answer that names a field.
FieldError(op, key, args, error, field) ==
    [Exchange(op, key, args, 400, error) EXCEPT !.data = [field |-> field]]

\* POST /api/enrollments/.  student_id and classroom_id are ids or None;
\* status is a text or Unset; the dates are JSON values.  The 500 answers
\* are the IntegrityError that Enrollment.objects.create raises for a null
\* start_date or for a second row with the same student, classroom and
\* start_date, which nothing catches.
EnrollmentsPost(key, p) ==
    LET user == GetUserFromRequest(key)
        school == RequireProfileSchool(user)
        start == ParseDateField(p.start_date)
        end == ParseDateField(p.end_date)
        row == [student |-> p.student_id, classroom |-> p.classroom_id,
                start_date |-> start.parsed, end_date |-> end.parsed,
                status |-> IF p.status = Unset THEN "active" ELSE p.status]
        DateBefore(a, b) ==
            \/ a[1] < b[1]
            \/ a[1] = b[1] /\ a[2] < b[2]
            \/ a[1] = b[1] /\ a[2] = b[2] /\ a[3] < b[3]
        refuse(status, error) ==
            /\ last' = Exchange("enrollments_post", key, p, status, error)
            /\ UNCHANGED enrollments
        refuseField(error, field) ==
            /\ last' = FieldError("enrollments_post", key, p, error, field)
            /\ UNCHANGED enrollments
    IN /\ UNCHANGED <<profiles, tokenVars, schedVars, gradeVars, financeVars,
                      transactions, attendVars, inflight>>
       /\ IF user = None THEN refuse(401, "Unauthorized")
          ELSE IF school = None THEN refuse(400, "School not configured for user")
          ELSE IF p.student_id = None \/ p.classroom_id = None \/ JMissing(p.start_date)
               THEN refuse(400, "Missing required fields")
          ELSE IF p.status # Unset /\ p.status \notin ENROLLMENT_STATUSES
               THEN refuseField("Invalid value", "status")
          ELSE IF start.error THEN refuseField("Invalid date", "start_date")
          ELSE IF end.error THEN refuseField("Invalid date", "end_date")
          ELSE IF end.parsed # NoDate /\ start.parsed # NoDate
                    /\ DateBefore(end.parsed, start.parsed)
               THEN refuse(400, "End date before start date")
          ELSE IF p.status = "completed" /\ end.parsed = NoDate
               THEN refuse(400, "end_date required when status is completed")
          ELSE IF ~RequireRoles(user, ENROLLMENT_ROLES) THEN refuse(403, "Forbidden")
          ELSE IF StudentSchool[p.student_id] # school
                    \/ ClassroomSchool[p.classroom_id] # school
               THEN refuse(404, "Not found")
          ELSE IF start.parsed = NoDate THEN refuse(500, "IntegrityError")
          ELSE IF \E e \in enrollments :
                      /\ e.student = row.student /\ e.classroom = row.classroom
                      /\ e.start_date = row.start_date
               THEN refuse(500, "IntegrityError")
          ELSE /\ Cardinality(enrollments) < MaxEnrollments
               /\ enrollments' = enrollments \cup {row}
               /\ last' = Reply("enrollments_post", key, p, 201, row)

\* Texts sent as dates: a day, the leap day written without padding, the
\* 29th of February of a common year, the 40th of month 13, a day written
\* with slashes, and a later day.
DateTexts ==
    [day |-> JText(<<"2", "0", "2", "4", "-", "0", "3", "-", "0", "1">>),
     leap |-> JText(<<"2", "0", "2", "4", "-", "2", "-", "2", "9">>),
     common |-> JText(<<"2", "0", "2", "3", "-", "0", "2", "-", "2", "9">>),
     impossible |-> JText(<<"2", "0", "2", "4", "-", "1", "3", "-", "4", "0">>),
     slashes |-> JText(<<"0", "1", "/", "0", "3", "/", "2", "0", "2", "4">>),
     later |-> JText(<<"2", "0", "2", "4", "-", "0", "6", "-", "3", "0">>)]

\* Requests <<token key, payload>>.  The start_date values are valid dates,
\* texts that name no day, the empty text, null, the missing key and the
\* numbers 0 and 20240301.
EnrollmentRequests ==
    LET StartDates ==
            {DateTexts.day, DateTexts.leap, DateTexts.common, DateTexts.impossible,
             DateTexts.slashes, JText(<<>>), JNull, JAbsent, JNumber(0),
             JNumber(20240301)}
        Payload(student, classroom, start_date, end_date, status) ==
            [student_id |-> student, classroom_id |-> classroom,
             start_date |-> start_date, end_date |-> end_date, status |-> status]
    IN {<<1, Payload(1, c, d, JAbsent, Unset)>> : c \in {1, 2}, d \in StartDates}
       \cup {<<k, Payload(1, 1, d, JAbsent, Unset)>> :
                 k \in {2, 5, 6, None},
                 d \in {DateTexts.day, DateTexts.impossible, JNumber(0)}}
       \cup {<<1, Payload(1, 1, d, JAbsent, st)>> :
                 d \in {DateTexts.day, DateTexts.impossible},
                 st \in {"bogus", "completed"}}
       \cup {<<1, Payload(1, 1, DateTexts.day, e, st)>> :
                 e \in {DateTexts.later, DateTexts.leap, DateTexts.impossible,
                        JNumber(0)},
                 st \in {Unset, "completed"}}
       \cup {<<1, Payload(s, c, DateTexts.impossible, JAbsent, Unset)>> :
                 s \in {2, None}, c \in {3, None}}

NextEnroll == \E r \in EnrollmentRequests : EnrollmentsPost(r[1], r[2])

SpecEnroll == Init /\ [][NextEnroll]_vars

\* The start_date of the payload is there and is not a day of the calendar.
InvalidStartDate(p) ==
    /\ ~JMissing(p.start_date)
    /\ ~(p.start_date.kind = "text" /\ ParseDate(p.start_date.chars).outcome = "date")

\* C13 as stated, for the caller who may enroll and a payload that is
\* otherwise acceptable: a POST to /api/enrollments/ whose start_date is not a
\* valid calendar date is answered 400 with field "start_date" and creates no
\* enrollment.
C13_InvalidStartDate ==
    [][/\ last'.op = "enrollments_post"
       /\ Authenticated /\ Caller.school # None
       /\ Caller.role \in ENROLLMENT_ROLES
       /\ last'.args.student_id # None /\ last'.args.classroom_id # None
       /\ last'.args.status = Unset
       /\ InvalidStartDate(last'.args)
       => /\ last'.status = 400
          /\ last'.error = "Invalid date"
          /\ last'.data.field = "start_date"
          /\ enrollments' = enrollments]_vars

(***************************************************************************)
(* Transactions, reconciliation and the cash flow.  Amounts are in        *)
(* hundredths; a date is <<year, month, day>>.                             *)
(***************************************************************************)
MaxTransactions == 2

TYPE_INCOME == "income"
TYPE_EXPENSE == "expense"
TRANSACTION_STATUSES == {"open", "paid"}

\* The invoices of the model are due on the first day of a month of 2024.
DueDate(invoice) == <<2024, invoice.due_month, 1>>

\* a <= b for dates
DateLte(a, b) ==
    \/ a[1] < b[1]
    \/ a[1] = b[1] /\ a[2] < b[2]
    \/ a[1] = b[1] /\ a[2] = b[2] /\ a[3] <= b[3]

\* POST /api/transactions/ with description, amount, date and type in the
\* payload; type and status are texts (status Unset when not sent), date is
\* a JSON value, invoice_id an id or None.
TransactionsPost(key, p) ==
    LET user == GetUserFromRequest(key)
        school == RequireProfileSchool(user)
        date == ParseDateField(p.date)
        refuse(status, error) ==
            /\ last' = Exchange("transactions_post", key, p, status, error)
            /\ UNCHANGED transactions
    IN /\ UNCHANGED <<profiles, tokenVars, schedVars, gradeVars, financeVars,
                      enrollments, attendVars, inflight>>
       /\ IF user = None THEN refuse(401, "Unauthorized")
          ELSE IF school = None THEN refuse(400, "School not configured for user")
          ELSE IF ~RequireRoles(user, INVOICE_ROLES) THEN refuse(403, "Forbidden")
          ELSE IF JMissing(p.date) THEN refuse(400, "Missing required fields")
          ELSE IF p.type \notin {TYPE_INCOME, TYPE_EXPENSE}
               THEN refuse(400, "Invalid value")
          ELSE IF p.status # Unset /\ p.status \notin TRANSACTION_STATUSES
               THEN refuse(400, "Invalid value")
          ELSE IF date.error THEN refuse(400, "Invalid date")
          ELSE IF p.invoice_id # None
                    /\ ~(/\ p.invoice_id \in DOMAIN invoices
                         /\ StudentSchool[invoices[p.invoice_id].student] = school)
               THEN refuse(400, "Invalid invoice")
          ELSE IF date.parsed = NoDate THEN refuse(500, "IntegrityError")
          ELSE /\ Len(transactions) < MaxTransactions
               /\ transactions' = Append(transactions,
                      [school |-> school, invoice |-> p.invoice_id,
                       amount |-> p.amount, transaction_type |-> p.type,
                       status |-> IF p.status = Unset THEN "open" ELSE p.status,
                       date |-> date.parsed])
               /\ last' = Exchange("transactions_post", key, p, 201, "")

\* As HasTransaction, but no invoice is ever found to have a transaction.
HasTransactionNever(id) == FALSE

\* FinancialTransaction.objects.filter(invoice=invoice).exists()
HasTransaction(id) == \E i \in DOMAIN transactions : transactions[i].invoice = id

\* The transaction reconcile_invoices creates for a serialized invoice.
ReconciledTransaction(school, invoice) ==
    [school |-> school, invoice |-> invoice.id, amount |-> invoice.amount,
     transaction_type |-> TYPE_INCOME, status |-> "paid",
     date |-> IF invoice.paid_at # NoDate THEN invoice.paid_at ELSE DueDate(invoice)]

\* The loop of reconcile_invoices over the selected invoices: the rows it
\* appends for those without a transaction.
RECURSIVE ReconcileEach(_, _)
ReconcileEach(school, selected) ==
    IF selected = <<>> THEN <<>>
    ELSE (IF HasTransaction(Head(selected).id) THEN <<>>
          ELSE <<ReconciledTransaction(school, Head(selected))>>)
         \o ReconcileEach(school, Tail(selected))

\* POST /api/invoices/reconcile/; p.status is the status filter (Unset when
\* not sent), p.invoice_ids a set of ids, or {None} when not sent.
ReconcileInvoices(key, p) ==
    LET user == GetUserFromRequest(key)
        school == RequireProfileSchool(user)
        status_filter == IF p.status = Unset THEN "paid" ELSE p.status
        selected ==
            SelectSeq(OrderByDueDateDesc(SerializedInvoices, 12),
                      LAMBDA r : /\ StudentSchool[r.student_id] = school
                                 /\ r.status = status_filter
                                 /\ (p.invoice_ids = {None} \/ r.id \in p.invoice_ids))
        created == ReconcileEach(school, selected)
        refuse(status, error) ==
            /\ last' = Exchange("reconcile_invoices", key, p, status, error)
            /\ UNCHANGED transactions
    IN /\ UNCHANGED <<profiles, tokenVars, schedVars, gradeVars, financeVars,
                      enrollments, attendVars, inflight>>
       /\ IF user = None THEN refuse(401, "Unauthorized")
          ELSE IF school = None THEN refuse(400, "School not configured for user")
          ELSE IF ~RequireRoles(user, INVOICE_ROLES) THEN refuse(403, "Forbidden")
          ELSE /\ Len(transactions) + Len(created) <= MaxTransactions
               /\ transactions' = transactions \o created
               /\ last' = Reply("reconcile_invoices", key, p, 200,
                                [created |-> Len(created)])

\* Sum("amount") over rows, 0 for no rows (`or Decimal("0")`).
RECURSIVE SumAmounts(_)
SumAmounts(rows) ==
    IF rows = <<>> THEN 0 ELSE Head(rows).amount + SumAmounts(Tail(rows))

\* f"{value:.2f}" of an amount in hundredths: sign, units and hundredths.
FormatDecimal(value) ==
    LET magnitude == IF value < 0 THEN 0 - value ELSE value
    IN [negative |-> value < 0, units |-> magnitude \div 100,
        hundredths |-> magnitude % 100]

\* A date filter of the query string applied to a row's date; the filter is
\* [given, text] and is applied when given.
DateFilterError(param) == param.given /\ ParseDate(param.text).outcome # "date"

\* As InRange, but date_to is not applied.
InRangeIgnoringDateTo(date, date_from, date_to) ==
    ~date_from.given \/ DateLte(ParseDate(date_from.text).date, date)

InRange(date, date_from, date_to) ==
    /\ ~date_from.given \/ DateLte(ParseDate(date_from.text).date, date)
    /\ ~date_to.given \/ DateLte(date, ParseDate(date_to.text).date)

\* The months <<year, month>> in increasing order (sorted(monthly.items())).
RECURSIVE SortedMonths(_)
SortedMonths(months) ==
    IF months = {} THEN <<>>
    ELSE LET first == CHOOSE m \in months :
                          \A n \in months : m[1] < n[1] \/ (m[1] = n[1] /\ m[2] <= n[2])
         IN <<first>> \o SortedMonths(months \ {first})

\* GET /api/cashflow/ with the query parameters date_from and date_to.  A
\* filter text that is not a date makes the query raise ValidationError,
\* which nothing catches.
CashflowSummary(key, date_from, date_to) ==
    LET user == GetUserFromRequest(key)
        school == RequireProfileSchool(user)
        args == [date_from |-> date_from, date_to |-> date_to]
        items == SelectSeq(transactions,
                           LAMBDA t : /\ t.school = school
                                      /\ InRange(t.date, date_from, date_to))
        OfType(rows, type) == SelectSeq(rows, LAMBDA t : t.transaction_type = type)
        income == SumAmounts(OfType(items, TYPE_INCOME))
        expense == SumAmounts(OfType(items, TYPE_EXPENSE))
        \* values("date", "transaction_type").annotate(total=Sum("amount"))
        groups == {<<items[i].date, items[i].transaction_type>> : i \in DOMAIN items}
        Total(g) == SumAmounts(SelectSeq(items,
                        LAMBDA t : t.date = g[1] /\ t.transaction_type = g[2]))
        RECURSIVE MonthTotal(_, _, _)
        MonthTotal(rest, month, income_side) ==
            IF rest = {} THEN 0
            ELSE LET g == CHOOSE x \in rest : TRUE
                 IN (IF <<g[1][1], g[1][2]>> = month
                        /\ (g[2] = TYPE_INCOME) = income_side
                     THEN Total(g) ELSE 0)
                    + MonthTotal(rest \ {g}, month, income_side)
        months == SortedMonths({<<g[1][1], g[1][2]>> : g \in groups})
        monthly == [i \in DOMAIN months |->
                       [month |-> months[i],
                        income |-> FormatDecimal(MonthTotal(groups, months[i], TRUE)),
                        expense |-> FormatDecimal(MonthTotal(groups, months[i], FALSE))]]
    IN /\ UNCHANGED <<profiles, tokenVars, schedVars, gradeVars, financeVars, recordVars>>
       /\ IF user = None
          THEN last' = Exchange("cashflow_summary", key, args, 401, "Unauthorized")
          ELSE IF school = None
          THEN last' = Exchange("cashflow_summary", key, args, 400,
                                "School not configured for user")
          ELSE IF DateFilterError(date_from) \/ DateFilterError(date_to)
          THEN last' = Exchange("cashflow_summary", key, args, 500, "ValidationError")
          ELSE last' = Reply("cashflow_summary", key, args, 200,
                             [summary |-> [income |-> FormatDecimal(income),
                                           expense |-> FormatDecimal(expense),
                                           net |-> FormatDecimal(income - expense)],
                              monthly |-> monthly])

\* Requests <<token key, payload>> of the three finance endpoints and
\* <<token key, date_from, date_to>> of the cash flow.
FinanceRequests ==
    LET Paid(student, amount, due_month, paid_at) ==
            [InvoicePayload(student, amount, due_month)
                EXCEPT !.status = "paid", !.paid_at = paid_at]
        Transaction(amount, type, date, invoice_id) ==
            [amount |-> amount, type |-> type, status |-> Unset, date |-> date,
             invoice_id |-> invoice_id]
        Reconcile(status, invoice_ids) == [status |-> status, invoice_ids |-> invoice_ids]
    IN [invoices |->
            {<<4, Paid(1, 12000, 2, <<2024, 3, 7>>)>>,
             <<4, InvoicePayload(1, 15000, 3)>>,
             <<5, Paid(2, 9000, 3, <<2024, 3, 1>>)>>,
             <<4, [InvoicePayload(1, 12000, 2) EXCEPT !.status = "paid"]>>},
        transactions |->
            {<<4, Transaction(4050, TYPE_EXPENSE, DateTexts.leap, None)>>,
             <<4, Transaction(12000, TYPE_INCOME, DateTexts.day, 1)>>,
             <<5, Transaction(7000, TYPE_EXPENSE, DateTexts.day, None)>>,
             <<4, Transaction(10000, "transfer", DateTexts.day, None)>>,
             <<4, Transaction(10000, TYPE_INCOME, DateTexts.impossible, None)>>,
             <<4, Transaction(10000, TYPE_INCOME, JNumber(0), None)>>,
             <<3, Transaction(10000, TYPE_INCOME, DateTexts.day, None)>>},
        reconcile |->
            {<<4, Reconcile(Unset, {None})>>, <<4, Reconcile(Unset, {1})>>,
             <<4, Reconcile("open", {1, 2})>>, <<5, Reconcile(Unset, {1, 2})>>,
             <<3, Reconcile(Unset, {None})>>, <<6, Reconcile(Unset, {None})>>,
             <<None, Reconcile(Unset, {None})>>},
        cashflow |->
            {<<4, f, t>> : f \in {NotSent, Sent(DateTexts.day.chars)},
                          t \in {NotSent, Sent(DateTexts.leap.chars),
                                 Sent(DateTexts.day.chars)}}
            \cup {<<5, NotSent, NotSent>>,
                  <<4, Sent(DateTexts.impossible.chars), NotSent>>,
                  <<6, NotSent, NotSent>>, <<None, NotSent, NotSent>>}]

NextFinance ==
    \/ \E r \in FinanceRequests.invoices : InvoicesPost(r[1], r[2])
    \/ \E r \in FinanceRequests.transactions : TransactionsPost(r[1], r[2])
    \/ \E r \in FinanceRequests.reconcile : ReconcileInvoices(r[1], r[2])
    \/ \E r \in FinanceRequests.cashflow : CashflowSummary(r[1], r[2], r[3])

SpecFinance == Init /\ [][NextFinance]_vars

(***************************************************************************)
(* Finance claims.                                                         *)
(***************************************************************************)
\* The invoices a reconcile request selects: those of the caller's school
\* with the status asked for (paid when none is) and, when ids are sent,
\* with one of the ids.
Selected ==
    {i \in DOMAIN invoices :
        /\ StudentSchool[invoices[i].student] = Caller.school
        /\ invoices[i].status = (IF last'.args.status = Unset THEN "paid"
                                 ELSE last'.args.status)
        /\ (last'.args.invoice_ids = {None} \/ i \in last'.args.invoice_ids)}

\* The selected invoices no transaction refers to.
Unreconciled ==
    {i \in Selected : \A t \in DOMAIN transactions : transactions[t].invoice # i}

\* The rows a step appended to the transactions.
Added == (Len(transactions) + 1)..Len(transactions')

\* A successful reconcile keeps the rows there were and adds one paid income
\* row of the caller's school and of the invoice's amount for each selected
\* invoice without a transaction, and no other row; it answers their number.
ReconcileCreates ==
    last'.op = "reconcile_invoices" /\ last'.status = 200
    => /\ SubSeq(transactions', 1, Len(transactions)) = transactions
       /\ \A i \in Unreconciled :
             Cardinality({t \in Added : transactions'[t].invoice = i}) = 1
       /\ \A t \in Added :
             /\ transactions'[t].invoice \in Unreconciled
             /\ transactions'[t].amount = invoices[transactions'[t].invoice].amount
             /\ transactions'[t].transaction_type = "income"
             /\ transactions'[t].status = "paid"
             /\ transactions'[t].school = Caller.school
       /\ last'.data.created = Cardinality(Unreconciled)

\* The same request right after a successful reconcile creates nothing.
ReconcileRepeated ==
    /\ last.op = "reconcile_invoices" /\ last.status = 200
    /\ last'.op = "reconcile_invoices"
    /\ last'.key = last.key /\ last'.args = last.args
    => /\ last'.status = 200
       /\ last'.data.created = 0
       /\ transactions' = transactions

\* C14: a successful POST /api/invoices/reconcile/ creates exactly one paid
\* income transaction, of the invoice's amount and in the caller's school, for
\* each selected invoice of the caller's school that has no transaction yet,
\* and answers their number as created; the same request repeated at once
\* answers created = 0 and adds no transaction.
C14_Reconcile == [][ReconcileCreates /\ ReconcileRepeated]_vars

\* The finance user of school 1 reconciled the two invoices of the school,
\* and the repeated request created nothing.
C14_Witness ==
    /\ last.op = "reconcile_invoices" /\ last.status = 200 /\ last.key = 4
    /\ last.data.created = 0
    /\ Len(invoices) = 2 /\ Len(transactions) = 2
    /\ transactions[1].invoice = 1 /\ transactions[1].amount = invoices[1].amount
    /\ transactions[2].invoice = 2 /\ transactions[2].amount = invoices[2].amount

\* The amount a formatted decimal stands for, in hundredths.
Amount(text) ==
    (IF text.negative THEN 0 - 1 ELSE 1) * (100 * text.units + text.hundredths)

\* The transactions of the caller's school of the given type whose date is in
\* the range the last cash flow request asked for.
InCashflow(type) ==
    {i \in DOMAIN transactions :
        /\ transactions[i].school = profiles[tokens[last.key]].school
        /\ transactions[i].transaction_type = type
        /\ last.args.date_from.given
              => DateLte(ParseDate(last.args.date_from.text).date, transactions[i].date)
        /\ last.args.date_to.given
              => DateLte(transactions[i].date, ParseDate(last.args.date_to.text).date)}

RECURSIVE SumOf(_)
SumOf(rows) ==
    IF rows = {} THEN 0
    ELSE LET i == CHOOSE x \in rows : TRUE
         IN transactions[i].amount + SumOf(rows \ {i})

RECURSIVE MonthlySum(_, _)
MonthlySum(monthly, side) ==
    IF monthly = <<>> THEN 0
    ELSE Amount(Head(monthly)[side]) + MonthlySum(Tail(monthly), side)

\* C15: an answered GET /api/cashflow/ reports income as the sum of the
\* amounts of the income transactions of the caller's school in the requested
\* date range, expense as that of its expense transactions, net as income
\* minus expense, and monthly figures that add up to income and to expense.
C15_Cashflow ==
    last.op = "cashflow_summary" /\ last.status = 200 =>
        LET summary == last.data.summary
        IN /\ Amount(summary.income) = SumOf(InCashflow("income"))
           /\ Amount(summary.expense) = SumOf(InCashflow("expense"))
           /\ Amount(summary.net) = Amount(summary.income) - Amount(summary.expense)
           /\ MonthlySum(last.data.monthly, "income") = Amount(summary.income)
           /\ MonthlySum(last.data.monthly, "expense") = Amount(summary.expense)

\* School 1 has an expense of 40.50 in February and an income of 120.00 in
\* March; the cash flow up to the first of March reports both in two months,
\* and a net of 79.50.
C15_Witness ==
    /\ last.op = "cashflow_summary" /\ last.status = 200 /\ last.key = 4
    /\ last.args.date_to.given
    /\ Len(last.data.monthly) = 2
    /\ last.data.summary.income = [negative |-> FALSE, units |-> 120, hundredths |-> 0]
    /\ last.data.summary.expense = [negative |-> FALSE, units |-> 40, hundredths |-> 50]
    /\ last.data.summary.net = [negative |-> FALSE, units |-> 79, hundredths |-> 50]

(***************************************************************************)
(* Absence justifications.                                                 *)
(***************************************************************************)
JUSTIFICATION_STATUSES == {"pending", "approved", "rejected"}
JUSTIFICATION_ROLES == {ROLE_ADMIN, ROLE_DIRECTOR, ROLE_COORDINATOR, ROLE_TEACHER}

\* AttendanceRecord id -> student: record 1 and 2 are of the student of
\* school 1, record 3 of the student of school 2.
AttendanceStudent == (1 :> 1) @@ (2 :> 1) @@ (3 :> 2)

\* As AttendanceStatusAfter, but every decision excuses the absence.
AttendanceStatusAlwaysExcused(status_value, current) == "excused"

\* The attendance status the justification status leaves.
AttendanceStatusAfter(status_value, current) ==
    IF status_value = "approved" THEN "excused"
    ELSE IF status_value = "rejected" THEN "absent"
    ELSE current

\* POST /api/justifications/.  attendance_id is an id or None, reason a text
\* ("" when missing), status a text or Unset; observation is not sent.
JustificationsPost(key, p) ==
    LET user == GetUserFromRequest(key)
        school == RequireProfileSchool(user)
        status_value == IF p.status \in {Unset, ""} THEN "approved" ELSE p.status
        old == {j \in justifications : j.attendance = p.attendance_id}
        decided == status_value \in {"approved", "rejected"}
        \* update_or_create, then the save of decided_by
        row == [attendance |-> p.attendance_id, reason |-> p.reason,
                status |-> status_value, created_by |-> profiles[user].pid,
                decided_by |-> IF decided THEN profiles[user].pid
                               ELSE IF old = {} THEN None
                               ELSE (CHOOSE j \in old : TRUE).decided_by]
        refuse(status, error) ==
            /\ last' = Exchange("justifications_post", key, p, status, error)
            /\ UNCHANGED attendVars
    IN /\ UNCHANGED <<profiles, tokenVars, schedVars, gradeVars, financeVars,
                      enrollments, transactions, inflight>>
       /\ IF user = None THEN refuse(401, "Unauthorized")
          ELSE IF school = None THEN refuse(400, "School not configured for user")
          ELSE IF ~RequireRoles(user, JUSTIFICATION_ROLES) THEN refuse(403, "Forbidden")
          ELSE IF p.attendance_id = None \/ p.reason = ""
               THEN refuse(400, "Missing required fields")
          ELSE IF status_value \notin JUSTIFICATION_STATUSES
               THEN refuse(400, "Invalid value")
          ELSE IF ~(/\ p.attendance_id \in DOMAIN attendance
                    /\ StudentSchool[AttendanceStudent[p.attendance_id]] = school)
               THEN refuse(404, "Attendance record not found")
          ELSE /\ justifications' = (justifications \ old) \cup {row}
               /\ attendance' =
                      [attendance EXCEPT ![p.attendance_id] =
                          AttendanceStatusAfter(status_value, attendance[p.attendance_id])]
               /\ last' = Exchange("justifications_post", key, p, 201, "")

\* Requests <<token key, payload>>.
JustificationRequests ==
    LET Payload(attendance_id, reason, status) ==
            [attendance_id |-> attendance_id, reason |-> reason, status |-> status]
    IN {<<2, Payload(1, "Atestado", st)>> :
            st \in {Unset, "", "approved", "rejected", "pending"}}
       \cup {<<1, Payload(1, "Atestado", st)>> : st \in {"rejected", "pending"}}
       \cup {<<2, Payload(2, "Atestado", st)>> : st \in {"approved", "pending"}}
       \cup {<<2, Payload(1, "Consulta", "pending")>>,
             <<2, Payload(1, "Atestado", "late")>>,
             <<2, Payload(1, "", "approved")>>,
             <<2, Payload(None, "Atestado", "approved")>>,
             <<2, Payload(3, "Atestado", "approved")>>,
             <<2, Payload(4, "Atestado", "approved")>>,
             <<5, Payload(3, "Atestado", "rejected")>>,
             <<5, Payload(1, "Atestado", "rejected")>>,
             <<4, Payload(1, "Atestado", "approved")>>,
             <<6, Payload(1, "Atestado", "approved")>>,
             <<None, Payload(1, "Atestado", "approved")>>}

\* The tables with three attendance records and no justification; the first
\* record is of a student marked present or absent, the others absent.
InitJustify ==
    /\ profiles = SeedProfiles
    /\ tokens = SeedTokens
    /\ nextKey = Cardinality(DOMAIN SeedTokens) + 1
    /\ schedule = {}
    /\ avail = {}
    /\ grades = {}
    /\ gradingConfig = [s \in Schools |-> NoConfig]
    /\ rounding = ROUND_HALF_EVEN
    /\ invoices = <<>>
    /\ prompts = 0
    /\ enrollments = {}
    /\ transactions = <<>>
    /\ \E first \in {"present", "absent"} : attendance = <<first, "absent", "absent">>
    /\ justifications = {}
    /\ inflight = {}
    /\ last = Exchange("none", None, <<>>, 0, "")

NextJustify == \E r \in JustificationRequests : JustificationsPost(r[1], r[2])

SpecJustify == InitJustify /\ [][NextJustify]_vars

\* The justification status a request asks for.
AskedStatus == IF last'.args.status \in {Unset, ""} THEN "approved" ELSE last'.args.status

\* The justifications of the attendance record the request names.
JustificationsOf(rows) == {j \in rows : j.attendance = last'.args.attendance_id}

\* C16: an answered justifications POST leaves exactly one justification of
\* the attendance record, holding the reason and status of the request
\* (approved when the status is omitted), and leaves the justifications of
\* other records as they were; it sets the attendance status to excused when
\* the justification is approved, to absent when it is rejected, and leaves
\* it unchanged when it is pending; other attendance records keep theirs.
C16_Justification ==
    [][last'.op = "justifications_post" /\ last'.status = 201
       => LET a == last'.args.attendance_id
          IN /\ Cardinality(JustificationsOf(justifications')) = 1
             /\ \A j \in JustificationsOf(justifications') :
                    j.reason = last'.args.reason /\ j.status = AskedStatus
             /\ justifications' \ JustificationsOf(justifications')
                    = justifications \ JustificationsOf(justifications)
             /\ AskedStatus = "approved" => attendance'[a] = "excused"
             /\ AskedStatus = "rejected" => attendance'[a] = "absent"
             /\ AskedStatus = "pending" => attendance'[a] = attendance[a]
             /\ \A b \in DOMAIN attendance \ {a} : attendance'[b] = attendance[b]
             /\ DOMAIN attendance' = DOMAIN attendance]_vars

\* The justification of record 1 was approved and then replaced by a pending
\* one with another reason: the record stays excused and has one
\* justification.
C16_Witness ==
    /\ last.op = "justifications_post" /\ last.status = 201
    /\ last.args.attendance_id = 1 /\ last.args.status = "pending"
    /\ last.args.reason = "Consulta"
    /\ attendance[1] = "excused"
    /\ {j \in justifications : j.attendance = 1}
           = {[attendance |-> 1, reason |-> "Consulta", status |-> "pending",
               created_by |-> 12, decided_by |-> 12]}

(***************************************************************************)
(* Schedule POSTs processed at the same time.  The handler reads the       *)
(* tables for its checks and writes the entry afterwards, in no database   *)
(* transaction; the steps of two requests may alternate.                   *)
(***************************************************************************)
MaxInflight == 2

\* The first part of POST /api/schedules/: everything up to and including
\* _check_schedule_conflicts.  A refused request is answered; an accepted one
\* waits to store its entry.
SchedulesBegin(key, p) ==
    LET answer == SchedulesPostAnswer(key, p)
    IN /\ UNCHANGED <<profiles, tokenVars, schedVars, gradeVars, financeVars,
                      enrollments, transactions, attendVars>>
       /\ IF answer[1] # 201
          THEN /\ last' = Exchange("schedules_post", key, p, answer[1], answer[2])
               /\ UNCHANGED inflight
          ELSE /\ Cardinality(inflight) < MaxInflight
               /\ [key |-> key, p |-> p] \notin inflight
               /\ inflight' = inflight \cup {[key |-> key, p |-> p]}
               /\ last' = Exchange("schedules_begin", key, p, 0, "")

\* The second part: update_or_create of the entry and the 201 answer.
SchedulesFinish(request) ==
    LET p == request.p
        teacher == ResolveTeacher(p.teacher_id,
                                  RequireProfileSchool(GetUserFromRequest(request.key)))
        rows == UpsertEntry(schedule, p.classroom_id, p.time_slot_id,
                            p.day_of_week, p.subject, teacher)
    IN /\ UNCHANGED <<profiles, tokenVars, avail, gradeVars, financeVars,
                      enrollments, transactions, attendVars>>
       /\ Cardinality(rows) <= MaxEntries
       /\ schedule' = rows
       /\ inflight' = inflight \ {request}
       /\ last' = Exchange("schedules_post", request.key, p, 201, "")

\* Requests <<token key, payload>>.
RaceRequests ==
    {<<1, PostPayload(c, 1, d, "Matematica", t)>> :
        c \in {1, 2}, d \in {0, 1}, t \in {None, 2}}
    \cup {<<5, PostPayload(3, 3, 0, "Matematica", None)>>,
          <<2, PostPayload(2, 1, 0, "Matematica", 2)>>,
          <<1, PostPayload(3, 1, 0, "Matematica", None)>>,
          <<3, PostPayload(1, 1, 0, "Matematica", None)>>,
          <<None, PostPayload(1, 1, 0, "Matematica", None)>>}

NextRace ==
    \/ \E r \in RaceRequests : SchedulesBegin(r[1], r[2])
    \/ \E request \in inflight : SchedulesFinish(request)

SpecRace == Init /\ [][NextRace]_vars

\* C17 as stated: a schedule POST creates its entry only when no entry of
\* another classroom of the school is stored for the same day and slot, so of
\* two requests for different classrooms and the same (day_of_week,
\* time_slot), however their steps alternate, at most one creates an entry.
C17_AtMostOneCreates ==
    [][last'.op = "schedules_post" /\ last'.status = 201
       => ~\E e \in schedule :
              /\ ClassroomSchool[e.classroom] = ClassroomSchool[last'.args.classroom_id]
              /\ e.day = last'.args.day_of_week
              /\ e.slot = last'.args.time_slot_id
              /\ e.classroom # last'.args.classroom_id]_vars

(***************************************************************************)
(* Accounts: register_user, users, staff and staff_detail.  A user is      *)
(* named by its e-mail address; the accounts the requests speak of all     *)
(* have a profile, so the addresses in use are DOMAIN profiles.  Passwords *)
(* pass _validate_password and no admission date is sent.                  *)
(***************************************************************************)
MaxProfiles == 9

\* _normalize_staff_role: None (an empty text here) for a falsy value.  For
\* any other value the function first builds its mapping literal, which reads
\* UserProfile.ROLE_STUDENT; models.py defines no such attribute, so the call
\* raises AttributeError whatever the value is, and the request is answered
\* 500 where the call stands.
NormalizeStaffRole(value) ==
    IF ~JTruthy(value) THEN [raised |-> FALSE, role |-> ""]
    ELSE [raised |-> TRUE, role |-> ""]

\* POST /api/auth/register/ with username, email and password; school_name
\* tells whether a school name is sent.  The handler authenticates nobody:
\* the token the request carries is not looked at.
RegisterUser(key, p) ==
    LET school ==
            IF p.school_name
            THEN 1 + CHOOSE s \in 1..(2 * MaxProfiles) :
                     /\ s \in Schools \cup {profiles[u].school : u \in DOMAIN profiles}
                     /\ \A u \in DOMAIN profiles : profiles[u].school <= s
            ELSE None
        role == IF school # None THEN ROLE_ADMIN ELSE ROLE_STAFF
    IN /\ UNCHANGED <<recordVars, schedVars, gradeVars, financeVars>>
       /\ IF p.email = None
          THEN /\ last' = Exchange("register_user", key, p, 400, "Missing required fields")
               /\ UNCHANGED <<profiles, tokenVars>>
          ELSE IF p.email \in DOMAIN profiles
          THEN /\ last' = Exchange("register_user", key, p, 409, "Email already exists")
               /\ UNCHANGED <<profiles, tokenVars>>
          ELSE /\ Cardinality(DOMAIN profiles) < MaxProfiles
               /\ profiles' = (p.email :> [pid |-> 10 + p.email, school |-> school,
                                           role |-> role]) @@ profiles
               /\ tokens' = IssueForUser(tokens, p.email)
               /\ nextKey' = nextKey + 1
               /\ last' = Reply("register_user", key, p, 201, nextKey)

\* POST /api/users/; p.role is the JSON value sent as role.
UsersPost(key, p) ==
    LET user == GetUserFromRequest(key)
        school == RequireProfileSchool(user)
        role == NormalizeStaffRole(p.role)
        answer(status, error) == last' = Exchange("users_post", key, p, status, error)
    IN /\ UNCHANGED <<profiles, recordVars, tokenVars, schedVars, gradeVars, financeVars>>
       /\ IF user = None THEN answer(401, "Unauthorized")
          ELSE IF ~RequireRoles(user, {ROLE_ADMIN, ROLE_DIRECTOR})
               THEN answer(403, "Forbidden")
          ELSE IF school = None THEN answer(400, "School not configured for user")
          ELSE IF p.email = None \/ JMissing(p.role)
               THEN answer(400, "Missing required fields")
          ELSE IF role.raised THEN answer(500, "AttributeError")
          \* _validate_choice(None, ROLE_CHOICES, "role")
          ELSE answer(400, "Invalid value")

\* POST /api/staff/ with a name; p.role is the JSON value sent as role.
StaffPost(key, p) ==
    LET user == GetUserFromRequest(key)
        school == RequireProfileSchool(user)
        role_value == NormalizeStaffRole(p.role)
        refuse(status, error) ==
            /\ last' = Exchange("staff_post", key, p, status, error)
            /\ UNCHANGED profiles
    IN /\ UNCHANGED <<recordVars, tokenVars, schedVars, gradeVars, financeVars>>
       /\ IF user = None THEN refuse(401, "Unauthorized")
          ELSE IF ~RequireRoles(user, {ROLE_ADMIN, ROLE_DIRECTOR, ROLE_COORDINATOR})
               THEN refuse(403, "Forbidden")
          ELSE IF school = None THEN refuse(400, "School not configured for user")
          ELSE IF p.email = None \/ JMissing(p.role)
               THEN refuse(400, "Missing required fields")
          ELSE IF role_value.raised THEN refuse(500, "AttributeError")
          ELSE IF p.email \in DOMAIN profiles THEN refuse(409, "Email already exists")
          \* role_value is None here: `role_value or UserProfile.ROLE_STAFF`
          ELSE /\ Cardinality(DOMAIN profiles) < MaxProfiles
               /\ profiles' = (p.email :> [pid |-> 10 + p.email, school |-> school,
                                           role |-> ROLE_STAFF]) @@ profiles
               /\ last' = Exchange("staff_post", key, p, 201, "")

\* PATCH /api/staff/<staff_id>/; p.role is the JSON value sent as role, JAbsent
\* when the payload has no role.
StaffDetailPatch(key, staff_id, p) ==
    LET user == GetUserFromRequest(key)
        school == RequireProfileSchool(user)
        role_value == NormalizeStaffRole(p.role)
        answer(status, error) ==
            last' = Exchange("staff_detail_patch", key, <<staff_id, p>>, status, error)
    IN /\ UNCHANGED <<profiles, recordVars, tokenVars, schedVars, gradeVars, financeVars>>
       /\ IF user = None THEN answer(401, "Unauthorized")
          ELSE IF ~RequireRoles(user, {ROLE_ADMIN, ROLE_DIRECTOR, ROLE_COORDINATOR})
               THEN answer(403, "Forbidden")
          ELSE IF school = None THEN answer(400, "School not configured for user")
          ELSE IF staff_id \notin DOMAIN profiles \/ profiles[staff_id].school # school
               THEN answer(404, "Not found")
          ELSE IF p.role = JAbsent THEN answer(200, "")
          ELSE IF role_value.raised THEN answer(500, "AttributeError")
          \* _validate_choice(None, ROLE_CHOICES, "role")
          ELSE answer(400, "Invalid value")

\* The seeded accounts and a coordinator of school 1, each with a token.
InitStaff ==
    /\ profiles = (7 :> [pid |-> 17, school |-> 1, role |-> ROLE_COORDINATOR])
                  @@ SeedProfiles
    /\ tokens = [k \in 1..7 |-> k]
    /\ nextKey = 8
    /\ schedule = {}
    /\ avail = {}
    /\ grades = {}
    /\ gradingConfig = [s \in Schools |-> NoConfig]
    /\ rounding = ROUND_HALF_EVEN
    /\ invoices = <<>>
    /\ prompts = 0
    /\ enrollments = {}
    /\ transactions = <<>>
    /\ attendance = <<>>
    /\ justifications = {}
    /\ inflight = {}
    /\ last = Exchange("none", None, <<>>, 0, "")

\* The requests of each endpoint: the role is sent as "admin", "director",
\* "staff", the number 0, null, or not at all.
StaffRequests ==
    LET roles == {JText(<<"a", "d", "m", "i", "n">>),
                  JText(<<"d", "i", "r", "e", "c", "t", "o", "r">>),
                  JText(<<"s", "t", "a", "f", "f">>),
                  JNumber(0), JNull, JAbsent}
        callers == {1, 2, 6, 7, None}
    IN [register |-> {<<k, [email |-> e, school_name |-> n]>> :
                         k \in {2, 7, None}, e \in {8, 9, 1, None}, n \in BOOLEAN},
        create |-> {<<k, [email |-> e, role |-> r]>> :
                         k \in callers, e \in {8, 9, 1}, r \in roles}
                   \cup {<<7, [email |-> None, role |-> JNumber(0)]>>},
        patch |-> {<<k, id, [role |-> r]>> :
                         k \in callers, id \in {1, 5, 7, 8}, r \in roles}]

NextStaff ==
    \/ \E r \in StaffRequests.register : RegisterUser(r[1], r[2])
    \/ \E r \in StaffRequests.create : UsersPost(r[1], r[2])
    \/ \E r \in StaffRequests.create : StaffPost(r[1], r[2])
    \/ \E r \in StaffRequests.patch : StaffDetailPatch(r[1], r[2], r[3])

SpecStaff == InitStaff /\ [][NextStaff]_vars

(***************************************************************************)
(* Account claims.                                                         *)
(***************************************************************************)
\* The step's caller presented a stored token of a user whose profile has a
\* role other than admin and director.
Unprivileged ==
    /\ Authenticated
    /\ tokens[last'.key] \in DOMAIN profiles
    /\ Caller.role \notin {ROLE_ADMIN, ROLE_DIRECTOR}

\* C18: a request of an authenticated caller whose role is neither admin nor
\* director brings no profile with role admin or director into existence and
\* leaves the role of every existing profile, the caller's own included, as
\* it was.
C18_NoEscalation ==
    [][Unprivileged =>
         /\ \A u \in DOMAIN profiles' \ DOMAIN profiles :
               profiles'[u].role \notin {ROLE_ADMIN, ROLE_DIRECTOR}
         /\ \A u \in DOMAIN profiles \cap DOMAIN profiles' :
               profiles'[u].role = profiles[u].role]_vars

====
